---- MODULE Spec2Model ----
(***************************************************************************)
(* A model of the .obj reader of go-render: the character-level Scanner    *)
(* (obj/scanner), the builder that compiles a structure description into   *)
(* a finite state machine (obj/parser builder), and the Parser that reads  *)
(* one element per Next call and skips erroneous lines.                    *)
(***************************************************************************)
EXTENDS Integers, Sequences, FiniteSets, TLC

VARIABLES
    input,          \* the bytes behind the io.Reader, fixed at construction
    scanner,        \* the Scanner struct (reader, buffer, line tracking)
    tokens,         \* what the calls of the Scanner's methods returned so far
    afterEOF,       \* number of Next calls made after the end was first reported
    parser,         \* the Parser's IgnoreWarnings and IgnoreErrors fields
    Output,         \* what Parser.log has written to Parser.Output
    element,        \* finiteStateMachine.element of each registered machine
    results,        \* what Parser.Next has returned so far, oldest first
    fsm             \* one elementParser driven token by token

vars == <<input, scanner, tokens, afterEOF, parser, Output, element, results, fsm>>

-----------------------------------------------------------------------------
(* Bounds of the model.                                                    *)

\* Longest byte sequence given to the Scanner specification.
MaxInput == 3
\* Most lines of one input given to the Parser specification.
MaxLines == 2
\* Most Next calls that report the end of the input.
MaxAfterEOF == 3
\* Most tokens fed to one elementParser run in the machine specification.
MaxTokens == 26

-----------------------------------------------------------------------------
(* Sequence helpers.                                                       *)

Min(a, b) == IF a < b THEN a ELSE b

RECURSIVE Flatten(_)
Flatten(ss) == IF ss = <<>> THEN <<>> ELSE Head(ss) \o Flatten(Tail(ss))

\* All sequences over S of length 0..n.
SeqsUpTo(S, n) == UNION {[1..k -> S] : k \in 0..n}

\* The value x under a local name: With(x, LAMBDA v : e) is e with v standing for x.
With(x, F(_)) == F(x)

\* A loop: Step is applied to st until st.done, at most n times.
RECURSIVE Run(_, _, _)
Run(Step(_), st, n) ==
    IF st.done \/ n = 0 THEN st
    ELSE IF n = 1 THEN Step(st)
    ELSE Run(Step, Run(Step, st, n \div 2), n - n \div 2)

-----------------------------------------------------------------------------
(* obj/scanner/scanner.go                                                  *)

TokenTypes == {"Word", "Int", "Float", "Slash", "Space", "EOL", "EOF", "Unknown", "Comment"}

ScanStates == <<"start", "skipLine", "foundEol", "foundSpace", "foundSlash",
                "foundMinus", "foundDot", "foundInt", "foundFloat", "foundWord", "unknown">>

StateIndex(s) == CHOOSE i \in 1..Len(ScanStates) : ScanStates[i] = s

\* tokenTypeMap: the token type read when the machine leaves a state for start.
tokenTypeMap ==
    [s \in {ScanStates[i] : i \in 1..Len(ScanStates)} |->
        <<"Unknown", "Comment", "EOL", "Space", "Slash", "Unknown", "Unknown",
          "Int", "Float", "Word", "Unknown">>[StateIndex(s)]]

Digits == {"0", "1", "2", "3", "4", "5", "6", "7", "8", "9"}
Letters == {"a", "b", "c", "d", "e", "f", "g", "h", "i", "j", "k", "l", "m",
            "n", "o", "p", "q", "r", "s", "t", "u", "v", "w", "x", "y", "z",
            "A", "B", "C", "D", "E", "F", "G", "H", "I", "J", "K", "L", "M",
            "N", "O", "P", "Q", "R", "S", "T", "U", "V", "W", "X", "Y", "Z", "_"}

getSymbolType(symbol) ==
    CASE symbol = "\n" -> "eol"
      [] symbol = " "  -> "space"
      [] symbol = "\t" -> "space"
      [] symbol = "#"  -> "hash"
      [] symbol = "/"  -> "slash"
      [] symbol = "-"  -> "minus"
      [] symbol = "."  -> "dot"
      [] symbol = "_"  -> "letter"
      [] symbol \in Digits -> "digit"
      [] symbol \in Letters -> "letter"
      [] OTHER -> "other"

\* The scanner's transition matrix, one row per symbol type, one column per state.
matrix ==
    [eol    |-> <<"foundEol", "start", "start", "start", "start", "start", "start", "start", "start", "start", "start">>,
     space  |-> <<"foundSpace", "skipLine", "start", "foundSpace", "start", "start", "start", "start", "start", "start", "start">>,
     hash   |-> <<"skipLine", "skipLine", "start", "start", "start", "start", "start", "start", "start", "start", "start">>,
     slash  |-> <<"foundSlash", "skipLine", "start", "start", "start", "start", "start", "start", "start", "start", "start">>,
     minus  |-> <<"foundMinus", "skipLine", "start", "start", "start", "unknown", "unknown", "unknown", "unknown", "unknown", "unknown">>,
     dot    |-> <<"unknown", "skipLine", "start", "start", "start", "unknown", "unknown", "foundDot", "unknown", "unknown", "unknown">>,
     digit  |-> <<"foundInt", "skipLine", "start", "start", "start", "foundInt", "foundFloat", "foundInt", "foundFloat", "foundWord", "unknown">>,
     letter |-> <<"foundWord", "skipLine", "start", "start", "start", "unknown", "unknown", "unknown", "unknown", "foundWord", "unknown">>,
     other  |-> <<"unknown", "skipLine", "start", "start", "start", "unknown", "unknown", "unknown", "unknown", "unknown", "unknown">>]

\* A matrix in which a minus ends a run of digits.
ScanTransition_MinusEnds(symbol, state) ==
    IF symbol = "-" /\ state = "foundInt" THEN "start"
    ELSE matrix[getSymbolType(symbol)][StateIndex(state)]

ScanTransition(symbol, state) == matrix[getSymbolType(symbol)][StateIndex(state)]

\* The size of the scanner's buffer.
bufsize == 255

\* NewScanner: nothing read yet, comments skipped unless the caller changes it.
\* The reader is the bytes it delivers and, in fault, the fault of its byte
\* source if it has one; offset counts the bytes delivered, reads the calls
\* of Read, and errors holds what the function Error was called with.
NewScanner(reader, skipComments) ==
    [reader |-> reader, init |-> FALSE, offset |-> 0, buffer |-> <<>>, bufpos |-> 0, buflast |-> 0,
     lineStr |-> <<>>, switchLine |-> FALSE, line |-> 0, position |-> 0,
     SkipComments |-> skipComments, fault |-> <<>>, reads |-> 0, errors |-> <<>>,
     chunk |-> bufsize]

\* What one reader.Read into the buffer returns: the number of bytes and the
\* error, "" for none and for io.EOF. A reader without a fault delivers
\* the next bytes, at most a buffer full and at most chunk bytes, chunk being
\* the most bytes its source has ready at a time. A fault stands after the byte
\* number at: the Read that reaches it returns the error, with the bytes
\* before it (withData) or after a Read that returned them.
Read(sc) ==
    IF sc.fault = <<>>
    THEN [n |-> Min(Min(bufsize, sc.chunk), Len(sc.reader) - sc.offset), err |-> ""]
    ELSE With(sc.fault[1].at - sc.offset, LAMBDA before :
         IF sc.fault[1].withData /\ before <= bufsize
         THEN [n |-> before, err |-> sc.fault[1].err]
         ELSE IF before = 0 THEN [n |-> 0, err |-> sc.fault[1].err]
         ELSE [n |-> Min(bufsize, before), err |-> ""])

\* refreshBuffer: an error that is not io.EOF is given to the function Error.
\* A fault that is not lasting is gone once it was returned.
refreshBuffer(sc) ==
    With(Read(sc), LAMBDA r :
    [sc EXCEPT !.buffer = SubSeq(sc.reader, sc.offset + 1, sc.offset + r.n),
               !.offset = sc.offset + r.n,
               !.buflast = r.n % 256,
               !.bufpos = 0,
               !.reads = sc.reads + 1,
               !.errors = IF r.err # "" THEN Append(sc.errors, r.err) ELSE sc.errors,
               !.fault = IF r.err # "" /\ ~sc.fault[1].lasting THEN <<>> ELSE sc.fault])

\* refreshLine that keeps the text of the line before.
refreshLine_KeepsText(sc) == [sc EXCEPT !.line = sc.line + 1]

refreshLine(sc) == [sc EXCEPT !.lineStr = <<>>, !.line = sc.line + 1]

\* The scanner as has() leaves it: the buffer is refilled when it is used up
\* and was full.
hasScanner(sc) ==
    IF sc.bufpos = sc.buflast /\ ~(sc.buflast < bufsize) THEN refreshBuffer(sc) ELSE sc

\* The value has() returns.
has(sc) == LET s == hasScanner(sc) IN s.bufpos # s.buflast

\* get: the byte under bufpos (called only when has() holds).
get(sc) == hasScanner(sc).buffer[hasScanner(sc).bufpos + 1]

step(sc) ==
    LET s1 == IF sc.switchLine THEN [refreshLine(sc) EXCEPT !.switchLine = FALSE] ELSE sc
        s2 == hasScanner(s1)
        symbol == get(s1)
        s3 == IF symbol = "\n" THEN [s2 EXCEPT !.switchLine = TRUE]
              ELSE [s2 EXCEPT !.lineStr = Append(@, symbol)]
    IN [s3 EXCEPT !.bufpos = (s3.bufpos + 1) % 256, !.position = s3.position + 1]

\* Initialized without the init flag: every call fills the buffer again.
Initialized_NeverSet(sc) == [refreshLine(refreshBuffer(sc)) EXCEPT !.line = 0]

\* The first lines of Next: the first call fills the buffer.
Initialized(sc) ==
    IF sc.init THEN sc
    ELSE [refreshLine(refreshBuffer(sc)) EXCEPT !.line = 0, !.init = TRUE]

\* allBytesRead counting a byte and a line that are not there.
allBytesRead_Counts(st) ==
    [st EXCEPT !.scanner = [refreshLine(hasScanner(st.scanner)) EXCEPT !.position = @ + 1],
               !.done = TRUE,
               !.type = IF st.state = "start" THEN "EOF" ELSE tokenTypeMap[st.state],
               !.token = st.buffer]

\* The returns of Next when all bytes are read from the reader: (EOF, "")
\* before the first byte of a token, the token read so far after it.
allBytesRead(st) ==
    [st EXCEPT !.scanner = hasScanner(st.scanner), !.done = TRUE,
               !.type = IF st.state = "start" THEN "EOF" ELSE tokenTypeMap[st.state],
               !.token = st.buffer]

\* Next reads a token in rounds: st holds the scanner and the local variables
\* state and buffer of the call. A round is one pass of the for loop; when the
\* call returns, done is set with the (type, token) returned. Where the code
\* returns scanner.Next() for a skipped comment, the rounds go on from the
\* start state with an empty buffer.
NextStep(st) ==
    LET sc == hasScanner(st.scanner) IN
    IF ~has(st.scanner) THEN allBytesRead(st)
    ELSE LET symbol == get(st.scanner)
             tokenType == tokenTypeMap[st.state]
             next == ScanTransition(symbol, st.state)
         IN IF next = "start"
            THEN IF sc.SkipComments /\ tokenType = "Comment"
                 THEN [st EXCEPT !.scanner = sc, !.state = "start", !.buffer = <<>>]
                 ELSE [st EXCEPT !.scanner = sc, !.done = TRUE,
                                 !.type = tokenType, !.token = st.buffer]
            ELSE [st EXCEPT !.scanner = step(sc), !.state = next,
                            !.buffer = Append(st.buffer, symbol)]

\* Scanner.Next: the scanner it leaves, and the (type, token) it returns. Every
\* round but the last reads a byte or ends a comment, so the rounds are fewer
\* than twice the bytes of the reader plus two.
ScannerNext(sc) ==
    LET st == Run(NextStep,
                  [scanner |-> Initialized(sc), state |-> "start", buffer |-> <<>>,
                   done |-> FALSE, type |-> "EOF", token |-> <<>>],
                  2 * Len(sc.reader) + 2)
    IN [scanner |-> st.scanner, type |-> st.type, token |-> st.token]

\* One pass of the loop of SkipLine.
SkipStep(st) ==
    IF has(st.scanner)
    THEN [scanner |-> step(hasScanner(st.scanner)), done |-> get(st.scanner) = "\n"]
    ELSE [scanner |-> hasScanner(st.scanner), done |-> TRUE]

\* SkipLine that skips nothing.
SkipLine_Stays(sc) == sc

\* SkipLine as it was before it looked at switchLine: it always skips to the
\* end of a line.
SkipLine_Always(sc) ==
    Run(SkipStep, [scanner |-> sc, done |-> FALSE], Len(sc.reader) + 1).scanner

\* Scanner.SkipLine.
SkipLine(sc) ==
    IF sc.switchLine THEN sc
    ELSE Run(SkipStep, [scanner |-> sc, done |-> FALSE], Len(sc.reader) + 1).scanner

Position(sc) == sc.position - 1
Line(sc) == sc.line
LineString(sc) == sc.lineStr
Column(sc) == IF sc.switchLine \/ ~has(sc) THEN Len(sc.lineStr) ELSE Len(sc.lineStr) - 1

-----------------------------------------------------------------------------
(* obj/parser: messages of the compiled machines.                          *)

noErrorMessage == ""

\* tokenTypeNamesMap: how a token type prints in a message.
TokenTypeString(t) ==
    CASE t = "Word" -> "WORD" [] t = "Int" -> "INT" [] t = "Float" -> "FLOAT"
      [] t = "Slash" -> "SLASH" [] t = "Space" -> "SPACE" [] t = "EOL" -> "EOL"
      [] t = "EOF" -> "EOF" [] t = "Unknown" -> "UNKNOWN" [] t = "Comment" -> "COMMENT"

RECURSIVE Join(_, _)
Join(names, sep) ==
    IF names = <<>> THEN ""
    ELSE IF Len(names) = 1 THEN names[1]
    ELSE LET half == Len(names) \div 2
         IN Join(SubSeq(names, 1, half), sep) \o sep
                \o Join(SubSeq(names, half + 1, Len(names)), sep)

impossibleTokenInStartStateMessage(t) ==
    "impossible token received in the start state - " \o TokenTypeString(t)

impossibleTokenAfterDescribingElementMessage(elementType, t) ==
    "impossible token received after describing a " \o elementType \o " - " \o TokenTypeString(t)

unexpectedTokenAfterDescribingElementMessage(elementType, t) ==
    "unexpected token received after describing a " \o elementType \o " - " \o TokenTypeString(t)

impossibleTokenMessage(name, t) ==
    "impossible token received when reading the " \o name \o " - " \o TokenTypeString(t)

invalidTokenMessage(name, expected, received) ==
    "invalid " \o name \o ", expected: " \o TokenTypeString(expected)
        \o ", received: " \o TokenTypeString(received)

parametersNotSpecifiedMessage(paramNames) ==
    IF Len(paramNames) = 1
    THEN "parameter " \o paramNames[1] \o " is not specified"
    ELSE "parameters " \o Join(paramNames, ", ") \o " are not specified"

invalidParameterFormatMessage(specific, base, expected, received) ==
    "invalid format for description of the " \o specific
        \o ", it must be the same as the first " \o base
        \o ", expected: " \o TokenTypeString(expected)
        \o ", received: " \o TokenTypeString(received)

delimiterBetween(predecessor, successor) ==
    "delimiter between " \o predecessor \o " and " \o successor

tokenAfter(name) == "token after " \o name

allParametersNotSpecifiedMessage(elementType) ==
    "all parameters of the " \o elementType \o " are not specified"

parserUsedInErrorStateMessage == "parser cannot be used in the error state"

notSpecifiedButFirstMessage(param, struct, slice) ==
    "the " \o param \o " is not specified for the " \o struct
        \o ", but is specified for the first " \o slice

specifiedButNotFirstMessage(param, struct, slice) ==
    "the " \o param \o " is specified for the " \o struct
        \o ", but is not specified for the first " \o slice

-----------------------------------------------------------------------------
(* obj/parser: rows of the machine under construction (rowBuilder).        *)

\* The reserved states of an elementParser, and the first free one.
start == 0
err == 1
first == 2

\* The action of a cell: nil, or a setter writing the token into the element.
NilAction == [kind |-> "nil", conv |-> "", name |-> "", field |-> "", sub |-> "", append |-> FALSE]

\* newRowBuilder: every cell is Go's zero value. The field set of a cell
\* says whether onToken or onTokenError has assigned the cell.
EmptyRow ==
    [t \in TokenTypes |-> [state |-> 0, action |-> NilAction, error |-> "", set |-> FALSE]]

onToken(row, t, s, a) ==
    [row EXCEPT ![t] = [state |-> s, action |-> a, error |-> noErrorMessage, set |-> TRUE]]

onWord(row, s, a) == onToken(row, "Word", s, a)
onInteger(row, s, a) == onToken(row, "Int", s, a)
onFloat(row, s, a) == onToken(row, "Float", s, a)
onSlash(row, s) == onToken(row, "Slash", s, NilAction)
onSpace(row, s) == onToken(row, "Space", s, NilAction)
\* onEnd that ends the line by a Space as well.
onEnd_BySpace(row) ==
    onToken(onToken(onToken(row, "EOL", start, NilAction), "EOF", start, NilAction),
            "Space", start, NilAction)

onEnd(row) == onToken(onToken(row, "EOL", start, NilAction), "EOF", start, NilAction)

onTokenError(row, t, message) ==
    [row EXCEPT ![t] = [state |-> err, action |-> NilAction, error |-> message, set |-> TRUE]]

onWordError(row, message) == onTokenError(row, "Word", message)
onIntegerError(row, message) == onTokenError(row, "Int", message)
onFloatError(row, message) == onTokenError(row, "Float", message)
onSlashError(row, message) == onTokenError(row, "Slash", message)
onSpaceError(row, message) == onTokenError(row, "Space", message)
onEndError(row, message) == onTokenError(onTokenError(row, "EOL", message), "EOF", message)
onUnknownError(row, message) == onTokenError(row, "Unknown", message)
\* onCommentError that leaves the cell as newRowBuilder made it.
onCommentError_Unset(row, message) == row
onCommentError(row, message) == onTokenError(row, "Comment", message)

-----------------------------------------------------------------------------
(* obj/parser: setters and parameters.                                     *)

\* A setter chain: conv converts the token, field names the field of the
\* element, sub the field of the slice element (or ""), append whether a new
\* slice element is created first (sliceAppender).
IntSetter(name, field, sub, append) ==
    [kind |-> "set", conv |-> "int", name |-> name, field |-> field, sub |-> sub, append |-> append]
FloatSetter(name, field, sub, append) ==
    [kind |-> "set", conv |-> "float", name |-> name, field |-> field, sub |-> sub, append |-> append]

\* newStringSetter, which createStructParameters does not wrap in a
\* structSetter, and newDirectionTypeSetter.
StringSetter(name) ==
    [kind |-> "set", conv |-> "string", name |-> name, field |-> "", sub |-> "", append |-> FALSE]
DirectionTypeSetter(name, field) ==
    [kind |-> "set", conv |-> "direction", name |-> name, field |-> field, sub |-> "",
     append |-> FALSE]

\* setter.expected().
\* expected that takes every setter for the setter of a float.
expected_Float(setter) == "Float"

expected(setter) ==
    IF setter.conv = "int" THEN "Int"
    ELSE IF setter.conv = "direction" THEN "Word"
    ELSE "Float"

\* newBaseParameter.
BaseParameter(name, setter) == [name |-> name, setter |-> setter]

\* baseUpdate that lets the line end whatever is still unread.
baseUpdate_EndsAnywhere(p, row, state, unread) ==
    LET exp == expected(p.setter)
        act == p.setter
        r1 == IF exp = "Word" THEN onWord(row, state, act)
              ELSE onWordError(row, invalidTokenMessage(p.name, exp, "Word"))
        r2 == IF exp = "Int" \/ exp = "Float" THEN onInteger(r1, state, act)
              ELSE onIntegerError(r1, invalidTokenMessage(p.name, exp, "Int"))
        r3 == IF exp = "Float" THEN onFloat(r2, state, NilAction)
              ELSE onFloatError(r2, invalidTokenMessage(p.name, exp, "Float"))
    IN onEnd(r3)

\* baseParameter.baseUpdate on a row: state is where the expected token leads,
\* unread the names of the parameters still to be read.
baseUpdate(p, row, state, unread) ==
    LET exp == expected(p.setter)
        act == p.setter
        r1 == IF exp = "Word" THEN onWord(row, state, act)
              ELSE onWordError(row, invalidTokenMessage(p.name, exp, "Word"))
        r2 == IF exp = "Int" \/ exp = "Float" THEN onInteger(r1, state, act)
              ELSE onIntegerError(r1, invalidTokenMessage(p.name, exp, "Int"))
        r3 == IF exp = "Float" THEN onFloat(r2, state, NilAction)
              ELSE onFloatError(r2, invalidTokenMessage(p.name, exp, "Float"))
    IN IF Len(unread) > 0
       THEN onEndError(r3, parametersNotSpecifiedMessage(unread))
       ELSE onEnd(r3)

\* The description of a structure the builder reads by reflection: one
\* record per field, with its Go kind and its tags.
\* tags names the tags the field has besides name.
\* optionalTag is the text of the tag optional, and optional what
\* strconv.ParseBool makes of it.
Field(kind, field, name, optional) ==
    [kind |-> kind, field |-> field, name |-> name, optional |-> optional,
     delimiter |-> "", min |-> 0, fields |-> <<>>,
     tags |-> IF optional THEN {"optional"} ELSE {},
     optionalTag |-> IF optional THEN "true" ELSE ""]
SliceOfStruct(field, name, delimiter, min, fields) ==
    [kind |-> "[]struct", field |-> field, name |-> name, optional |-> FALSE,
     delimiter |-> delimiter, min |-> min, fields |-> fields,
     tags |-> {"delimiter", "min"}, optionalTag |-> ""]

\* strconv.ParseBool: the texts it takes for true and for false.
TrueTexts == {"1", "t", "T", "TRUE", "true", "True"}
FalseTexts == {"0", "f", "F", "FALSE", "false", "False"}

\* A field whose tag optional has the given text.
FieldWithOptional(kind, field, name, text) ==
    [kind |-> kind, field |-> field, name |-> name, optional |-> text \in TrueTexts,
     delimiter |-> "", min |-> 0, fields |-> <<>>,
     tags |-> {"optional"}, optionalTag |-> text]

\* types.Vertex with the fields X and Y in the other order.
VertexType_Swapped ==
    <<Field("float64", "Y", "Y coordinate", FALSE),
      Field("float64", "X", "X coordinate", FALSE),
      Field("float64", "Z", "Z coordinate", FALSE),
      Field("float64", "W", "weight parameter", TRUE)>>

\* types.Vertex.
VertexType ==
    <<Field("float64", "X", "X coordinate", FALSE),
      Field("float64", "Y", "Y coordinate", FALSE),
      Field("float64", "Z", "Z coordinate", FALSE),
      Field("float64", "W", "weight parameter", TRUE)>>

\* The min tag of Face.Vertices.
FaceMin == 3

\* types.Face.
FaceType ==
    <<SliceOfStruct("Vertices", "vertex", "slash", FaceMin,
        <<Field("int", "Index", "index", FALSE),
          Field("int", "Texture", "texture", TRUE),
          Field("int", "Normal", "normal", TRUE)>>)>>

\* Go's s[i:].
From(s, i) == SubSeq(s, i + 1, Len(s))

\* createNestedStructParameter: the structParameter of a nested structure.
\* The wrapper of a slice element appends a new element with the first field.
createNestedStructParameter(name, delimiter, fields, top) ==
    [parameterName |-> name,
     delimiter |-> "Space",
     params |-> [i \in 1..Len(fields) |->
                    BaseParameter(fields[i].name,
                        IF fields[i].kind = "int"
                        THEN IntSetter(fields[i].name, top, fields[i].field, i = 1)
                        ELSE FloatSetter(fields[i].name, top, fields[i].field, i = 1))],
     requiredCount |-> Cardinality({i \in 1..Len(fields) :
                          ~(delimiter = "slash" /\ fields[i].optional)})]

\* The parameter createStructParameters creates for one field.
createParameter(f) ==
    IF f.kind = "[]struct"
    THEN [type |-> "structSlice", name |-> f.name, min |-> f.min,
          setter |-> NilAction,
          param |-> createNestedStructParameter(f.name, f.delimiter, f.fields, f.field)]
    ELSE [type |-> "base", name |-> f.name, min |-> 0,
          setter |-> IF f.kind = "int" THEN IntSetter(f.name, f.field, "", FALSE)
                     ELSE IF f.kind = "string" THEN StringSetter(f.name)
                     ELSE IF f.kind = "uint8" THEN DirectionTypeSetter(f.name, f.field)
                     ELSE FloatSetter(f.name, f.field, "", FALSE),
          param |-> createNestedStructParameter("", "", <<>>, "")]

\* parameter.String().
ParamString(p) == IF p.type = "base" THEN p.name ELSE p.name \o " parameters"

\* builder.paramNames: the names of the fields read before the first optional one.
RECURSIVE requiredParamNames(_, _)
requiredParamNames(fields, i) ==
    IF i > Len(fields) \/ fields[i].optional THEN <<>>
    ELSE <<ParamString(createParameter(fields[i]))>> \o requiredParamNames(fields, i + 1)

-----------------------------------------------------------------------------
(* obj/parser: the panics of createStructParameters. A panic is written as *)
(* its message, "" when there is none.                                     *)

\* The first panic of a sequence of checks made in order.
RECURSIVE FirstPanic(_)
FirstPanic(checks) ==
    IF checks = <<>> THEN ""
    ELSE IF Head(checks) # "" THEN Head(checks) ELSE FirstPanic(Tail(checks))

requireNoOptional(f, typeName) ==
    IF "optional" \in f.tags
    THEN "the optional tag cannot be set for a " \o typeName \o " field" ELSE ""
requireNoDelimiter(f, typeName) ==
    IF "delimiter" \in f.tags
    THEN "the delimiter tag cannot be set for a " \o typeName \o " field" ELSE ""
requireNoMin(f, typeName) ==
    IF "min" \in f.tags
    THEN "the min tag cannot be set for a " \o typeName \o " field" ELSE ""
\* requireWasNotOptional that lets a required field follow an optional one.
requireWasNotOptional_Allowed(wasOptional) == ""

requireWasNotOptional(wasOptional) ==
    IF wasOptional THEN "an optional field cannot be followed by a required field" ELSE ""

\* readOptional: the value of the tag, FALSE without the tag.
readOptional(f, isFirst) ==
    [panic |-> IF "optional" \in f.tags /\ isFirst
               THEN "the first field of the structure cannot be optional"
               ELSE IF "optional" \in f.tags /\ f.optionalTag \notin TrueTexts \cup FalseTexts
               THEN "the optional tag must take the values 'true' or 'false'"
               ELSE "",
     value |-> "optional" \in f.tags /\ f.optionalTag \in TrueTexts]

readDelimiter(f) ==
    IF "delimiter" \notin f.tags THEN "the []struct field must have the delimiter tag specified"
    ELSE IF f.delimiter \notin {"slash", "space"}
    THEN "the delimiter tag must take the values 'space' or 'slash'" ELSE ""

\* readMin: the tag is read as an integer of 8 bits.
readMin(f) ==
    IF "min" \notin f.tags THEN "the slice field must have the min tag specified"
    ELSE IF f.min > 127 \/ f.min < 0 - 128 THEN "error reading the min tag"
    ELSE IF f.min < 1 THEN "the min tag cannot accept values less than one" ELSE ""

\* The loop of createNestedStructParameter from the field i on (from 0).
RECURSIVE nestedPanicFrom(_, _, _, _)
nestedPanicFrom(fields, i, delimiter, hasOptional) ==
    IF ~(i < Len(fields)) THEN ""
    ELSE With(fields[i + 1], LAMBDA f :
         With(IF delimiter = "slash" THEN readOptional(f, i = 0).value ELSE FALSE,
              LAMBDA optional :
         With(FirstPanic(<<
                 IF delimiter = "space"
                 THEN requireNoOptional(f, "struct with space delimiter") ELSE "",
                 IF delimiter = "slash" THEN readOptional(f, i = 0).panic ELSE "",
                 IF delimiter = "slash" /\ ~optional
                 THEN requireWasNotOptional(hasOptional) ELSE "",
                 IF f.kind \in {"int", "float64"}
                 THEN FirstPanic(<<requireNoDelimiter(f, f.kind), requireNoMin(f, f.kind)>>)
                 ELSE "unsupported nested struct field type: " \o f.kind>>),
              LAMBDA panic :
         IF panic # "" THEN panic
         ELSE nestedPanicFrom(fields, i + 1, delimiter,
                              IF delimiter = "slash" THEN optional ELSE hasOptional))))

\* The variable typeName of createStructParameters when the loop comes to the
\* field i (from 0): what the field before has set it to, "" before the
\* first field. The name of the type of the field is not read into it.
RECURSIVE typeNameAt(_, _)
typeNameAt(t, i) ==
    IF i = 0 THEN ""
    ELSE With(t[i].kind, LAMBDA kind :
         CASE kind \in {"int", "float64", "string"} -> kind
           [] kind = "struct" -> "nested struct"
           [] OTHER -> typeNameAt(t, i - 1))

\* The checks createStructParameters makes of the field i (from 0), by its kind.
fieldPanic(t, i, hasOptional) ==
    With(t[i + 1], LAMBDA f :
    CASE f.kind = "uint8" ->
            FirstPanic(<<IF typeNameAt(t, i) # "DirectionType"
                         THEN "the field with the base type uint8 must have the type DirectionType"
                         ELSE "",
                         IF i # 0
                         THEN "the DirectionType field must be the first in the structure"
                         ELSE "",
                         requireNoOptional(f, typeNameAt(t, i)),
                         requireNoDelimiter(f, typeNameAt(t, i)),
                         requireNoMin(f, typeNameAt(t, i))>>)
      [] f.kind \in {"int", "float64"} ->
            FirstPanic(<<requireNoDelimiter(f, f.kind), requireNoMin(f, f.kind),
                         readOptional(f, i = 0).panic,
                         IF ~readOptional(f, i = 0).value
                         THEN requireWasNotOptional(hasOptional) ELSE "">>)
      [] f.kind = "string" ->
            FirstPanic(<<requireNoOptional(f, "string"), requireNoDelimiter(f, "string"),
                         requireNoMin(f, "string"), requireWasNotOptional(hasOptional)>>)
      [] f.kind = "struct" ->
            FirstPanic(<<requireNoOptional(f, "nested struct"),
                         requireNoDelimiter(f, "nested struct"),
                         requireNoMin(f, "nested struct"),
                         requireWasNotOptional(hasOptional),
                         nestedPanicFrom(f.fields, 0, "space", FALSE)>>)
      [] f.kind = "[]struct" ->
            FirstPanic(<<IF i # Len(t) - 1
                         THEN "the slice must be the last field of the structure" ELSE "",
                         requireNoOptional(f, "slice"),
                         requireWasNotOptional(hasOptional),
                         readMin(f),
                         readDelimiter(f),
                         nestedPanicFrom(f.fields, 0, f.delimiter, FALSE)>>)
      [] OTHER -> "unsupported struct field type: " \o f.kind)

\* The loop of createStructParameters from the field i on (from 0).
RECURSIVE structPanicFrom(_, _, _)
structPanicFrom(t, i, hasOptional) ==
    IF ~(i < Len(t)) THEN ""
    ELSE With(fieldPanic(t, i, hasOptional), LAMBDA panic :
         IF panic # "" THEN panic
         ELSE structPanicFrom(t, i + 1,
                  IF t[i + 1].kind \in {"int", "float64"}
                  THEN readOptional(t[i + 1], i = 0).value ELSE hasOptional))

\* createStructParameters: the panic that ends it, "" when it returns.
createStructParameters(t) ==
    IF Len(t) < 1 THEN "the parser cannot be built on a structure without fields"
    ELSE structPanicFrom(t, 0, FALSE)

\* newBuilder with createStructParameters.
newBuilder(elementType, t) ==
    [valueType |-> elementType,
     params |-> [i \in 1..Len(t) |-> createParameter(t[i])],
     paramNames |-> requiredParamNames(t, 1),
     position |-> 0,
     builders |-> <<>>,
     needFinalize |-> \A i \in 1..Len(t) : t[i].kind # "[]struct",
     structName |-> "",
     panic |-> createStructParameters(t)]

-----------------------------------------------------------------------------
(* obj/parser: the builder's rows.                                         *)

nextState(b) == Len(b.builders) % 256

nextEmptyRow(b) == [b EXCEPT !.builders = Append(@, EmptyRow)]

\* The row the last nextEmptyRow returned, and the builder with it replaced.
LastRow(b) == b.builders[Len(b.builders)]
WithLastRow(b, row) == [b EXCEPT !.builders[Len(b.builders)] = row]
\* The row created i-th (from 0), and the builder with it replaced.
RowOf(b, i) == b.builders[i + 1]
WithRow(b, i, row) == [b EXCEPT !.builders[i + 1] = row]

nextParameterRow(b, name, exp) ==
    LET b1 == nextEmptyRow(b) IN
    WithLastRow(b1,
        onCommentError(
            onUnknownError(
                onSpaceError(
                    onSlashError(LastRow(b1), invalidTokenMessage(name, exp, "Slash")),
                    impossibleTokenMessage(name, "Space")),
                invalidTokenMessage(name, exp, "Unknown")),
            impossibleTokenMessage(name, "Comment")))

nextDelimiterRow(b, name) ==
    LET b1 == nextEmptyRow(b) IN
    WithLastRow(b1,
        onCommentError(
            onUnknownError(
                onFloatError(
                    onIntegerError(
                        onWordError(LastRow(b1), impossibleTokenMessage(name, "Word")),
                        impossibleTokenMessage(name, "Int")),
                    impossibleTokenMessage(name, "Float")),
                impossibleTokenMessage(name, "Unknown")),
            impossibleTokenMessage(name, "Comment")))

\* getUnread that returns the names of all required parameters.
getUnread_All(b) == b.paramNames

getUnread(b) ==
    IF b.position < Len(b.paramNames) THEN From(b.paramNames, b.position) ELSE <<>>

\* EndOf that lets the line end whatever is still unread.
EndOf_Accepts(row, unread) == onEnd(row)

\* onEndError when parameters are still unread, onEnd otherwise.
EndOf(row, unread) ==
    IF Len(unread) > 0 THEN onEndError(row, parametersNotSpecifiedMessage(unread))
    ELSE onEnd(row)

waitSpace(b, name, unread) ==
    With(nextDelimiterRow(b, name), LAMBDA b1 :
        WithLastRow(b1,
            EndOf(onSpace(onSlashError(LastRow(b1), invalidTokenMessage(name, "Space", "Slash")),
                          nextState(b1)),
                  unread)))

waitSlash(b, name, unread) ==
    With(nextDelimiterRow(b, name), LAMBDA b1 :
        WithLastRow(b1,
            EndOf(onSlash(onSpaceError(LastRow(b1), invalidTokenMessage(name, "Slash", "Space")),
                          nextState(b1)),
                  unread)))

initialize(b) ==
    LET b1 == nextEmptyRow(b)
        r0 == onCommentError(onUnknownError(onEndError(onSpace(onSlashError(onFloatError(
                onIntegerError(onWordError(LastRow(b1),
                    impossibleTokenInStartStateMessage("Word")),
                    impossibleTokenInStartStateMessage("Int")),
                    impossibleTokenInStartStateMessage("Int")),
                    impossibleTokenInStartStateMessage("Slash")),
                    first),
                    allParametersNotSpecifiedMessage(b.valueType)),
                    impossibleTokenInStartStateMessage("Unknown")),
                    impossibleTokenInStartStateMessage("Comment"))
        r1 == [t \in TokenTypes |->
                 [state |-> err, action |-> NilAction, error |-> parserUsedInErrorStateMessage,
                  set |-> TRUE]]
    IN WithLastRow(nextEmptyRow(WithLastRow(b1, r0)), r1)

\* finalize that adds no state.
finalize_None(b) == b

finalize(b) ==
    LET vt == b.valueType
        b1 == nextEmptyRow(b)
        r0 == onCommentError(onUnknownError(onEnd(onSpace(onSlashError(onFloatError(
                onIntegerError(onWordError(LastRow(b1),
                    impossibleTokenAfterDescribingElementMessage(vt, "Word")),
                    impossibleTokenAfterDescribingElementMessage(vt, "Int")),
                    impossibleTokenAfterDescribingElementMessage(vt, "Float")),
                    unexpectedTokenAfterDescribingElementMessage(vt, "Slash")),
                    nextState(b1))),
                    impossibleTokenAfterDescribingElementMessage(vt, "Unknown")),
                    impossibleTokenAfterDescribingElementMessage(vt, "Unknown"))
    IN With(nextEmptyRow(WithLastRow(b1, r0)), LAMBDA b2 :
           WithLastRow(b2,
               onCommentError(onUnknownError(onEnd(onSpaceError(onSlashError(onFloatError(
                   onIntegerError(onWordError(LastRow(b2),
                       unexpectedTokenAfterDescribingElementMessage(vt, "Word")),
                       unexpectedTokenAfterDescribingElementMessage(vt, "Int")),
                       unexpectedTokenAfterDescribingElementMessage(vt, "Float")),
                       unexpectedTokenAfterDescribingElementMessage(vt, "Slash")),
                       impossibleTokenAfterDescribingElementMessage(vt, "Space"))),
                       unexpectedTokenAfterDescribingElementMessage(vt, "Unknown")),
                       impossibleTokenAfterDescribingElementMessage(vt, "Unknown"))))

\* baseParameter.update.
baseParameterUpdate(p, b) ==
    With(nextParameterRow(b, p.name, expected(p.setter)), LAMBDA b1 :
        WithLastRow(b1, baseUpdate(p, LastRow(b1), nextState(b1), getUnread(b1))))

-----------------------------------------------------------------------------
(* obj/parser: structParameter and the slice parameters.                   *)

\* structParameter.name(num) under the structure's current parameterName,
\* which changeName rewrites and the builder carries as structName.
structFieldName(sp, structName, num) == sp.params[num + 1].name \o " of the " \o structName

requiredNames(sp, structName) ==
    [i \in 1..sp.requiredCount |-> structFieldName(sp, structName, i - 1)]

allNames(sp, structName, to) ==
    [i \in 1..to |-> structFieldName(sp, structName, i - 1)]

changeName(b, name) == [b EXCEPT !.structName = name]

\* structParameter.updateRequired, from its loop index i on.
RECURSIVE updateRequiredFrom(_, _, _, _)
updateRequiredFrom(sp, b, unread, i) ==
    IF ~(i < sp.requiredCount) THEN b
    ELSE LET param == sp.params[i + 1]
             name == unread[i + 1]
         IN With(nextParameterRow(b, name, expected(param.setter)), LAMBDA b1 :
            With(WithLastRow(b1, baseUpdate(param, LastRow(b1), nextState(b1), From(unread, i))),
                 LAMBDA b2 :
            updateRequiredFrom(sp,
                IF i # sp.requiredCount - 1
                THEN IF sp.delimiter = "Space"
                     THEN waitSpace(b2, delimiterBetween(name, unread[i + 2]), From(unread, i + 1))
                     ELSE waitSlash(b2, delimiterBetween(name, unread[i + 2]), From(unread, i + 1))
                ELSE b2,
                unread, i + 1)))

updateRequired(sp, b, unread) == updateRequiredFrom(sp, b, unread, 0)

\* sliceParameter.name and names.
sliceName(p, num) == p.name \o " number " \o ToString(num + 1)
sliceNames(p) == [i \in 1..p.min |-> sliceName(p, i - 1)]

\* The update functions updateRecursive passes on are closures over its
\* arguments: a closure is the list of the frames (kind, paramNumber,
\* lastSlash) it was built from, the empty list being updateRequired.
Frame(kind, paramNumber, lastSlash) ==
    [kind |-> kind, paramNumber |-> paramNumber, lastSlash |-> lastSlash]

\* applyUpdate that forgets the closure: the required parameters alone.
applyUpdate_Required(p, update, b, unread) == updateRequired(p.param, b, unread)

RECURSIVE applyUpdate(_, _, _, _)

\* noParamUpdate: the previous parameters, then the slash before the current one.
noParamUpdate(p, update, f, b, unread) ==
    LET sp == p.param
        param == sp.params[f.paramNumber + 1]
        previous == sp.params[f.paramNumber].name
    IN With(applyUpdate(p, update, b, unread), LAMBDA b1 :
       IF b1.panic # "" THEN b1
       ELSE
       With(IF f.lastSlash
            THEN With(nextEmptyRow(b1), LAMBDA e :
                 With(specifiedButNotFirstMessage(previous, b1.structName, p.name),
                      LAMBDA extParamMessage :
                   WithLastRow(e,
                       onCommentError(onUnknownError(onFloatError(onIntegerError(onWordError(
                           LastRow(e),
                           invalidParameterFormatMessage(b1.structName, p.name, "Slash", "Word")),
                           extParamMessage),
                           IF expected(param.setter) = "Float" THEN extParamMessage
                           ELSE invalidParameterFormatMessage(b1.structName, p.name, "Slash", "Float")),
                           invalidParameterFormatMessage(b1.structName, p.name, "Slash", "Unknown")),
                           impossibleTokenMessage(
                               structFieldName(sp, b1.structName, f.paramNumber - 1), "Comment")))))
            ELSE nextDelimiterRow(b1,
                     tokenAfter(structFieldName(sp, b1.structName, f.paramNumber - 1))),
            LAMBDA b2 :
       WithLastRow(b2,
           onEndError(
               onSpaceError(
                   onSlash(LastRow(b2), nextState(b2)),
                   notSpecifiedButFirstMessage(param.name, b1.structName, p.name)),
               parametersNotSpecifiedMessage(From(unread, f.paramNumber))))))

\* hasParamUpdate: noParamUpdate, then the current parameter itself.
hasParamUpdate(p, update, f, b, unread) ==
    LET sp == p.param
        param == sp.params[f.paramNumber + 1]
        exp == expected(param.setter)
    IN With(noParamUpdate(p, update, f, b, unread), LAMBDA b1 :
       IF b1.panic # "" THEN b1
       ELSE
       With(structFieldName(sp, b1.structName, f.paramNumber), LAMBDA name :
       With(nextEmptyRow(b1), LAMBDA b2 :
       With(onCommentError(onUnknownError(onSpaceError(LastRow(b2),
                invalidTokenMessage(name, exp, "Space")),
                invalidTokenMessage(name, exp, "Unknown")),
                impossibleTokenMessage(name, "Comment")), LAMBDA r1 :
       WithLastRow(b2,
           baseUpdate(param,
               IF f.paramNumber # Len(sp.params) - 1
               THEN onSlashError(r1, notSpecifiedButFirstMessage(param.name, b1.structName, p.name))
               ELSE onSlashError(r1, invalidTokenMessage(name, exp, "Slash")),
               nextState(b2), From(unread, f.paramNumber)))))))

\* Calling the closure update on (b, unread).
applyUpdate(p, update, b, unread) ==
    IF update = <<>> THEN updateRequired(p.param, b, unread)
    ELSE LET f == update[Len(update)]
             outer == SubSeq(update, 1, Len(update) - 1)
         IN IF f.kind = "no" THEN noParamUpdate(p, outer, f, b, unread)
            ELSE hasParamUpdate(p, outer, f, b, unread)

\* One pass of the loop of updateRecursive over the remaining required slice
\* elements: st.b is the builder and st.i the loop index.
requiredElementStep(p, update, paramNumber, st) ==
    LET names == sliceNames(p)
        i == st.i
        name == names[i + 1]
    IN With(applyUpdate(p, update, changeName(st.b, name),
                allNames(p.param, name, paramNumber) \o From(names, i)), LAMBDA b2 :
       IF b2.panic # "" THEN [b |-> b2, i |-> i, done |-> TRUE]
       ELSE [b |-> IF i # p.min - 1
                   THEN waitSpace(b2, delimiterBetween(name, names[i + 2]), From(names, i + 1))
                   ELSE waitSpace(b2, tokenAfter(name), <<>>),
             i |-> i + 1,
             done |-> ~(i + 1 < p.min)])

\* The loop of updateRecursive over the remaining required slice elements.
requiredElementsFrom(p, update, b, paramNumber, i) ==
    Run(LAMBDA st : requiredElementStep(p, update, paramNumber, st),
        [b |-> b, i |-> i, done |-> ~(i < p.min)], p.min).b

\* The end of updateRecursive: the required elements after the first one and
\* the loop reading any number of additional elements, all in the format
\* the closure update describes.
remainingElements(p, update, b, paramNumber) ==
    LET name == "additional " \o p.name IN
    With(requiredElementsFrom(p, update, b, paramNumber, 1), LAMBDA b1 :
    IF b1.panic # "" THEN b1
    ELSE
    With(applyUpdate(p, update, changeName(b1, name), allNames(p.param, name, paramNumber)),
         LAMBDA b3 :
    IF b3.panic # "" THEN b3
    ELSE
    With(nextDelimiterRow(b3, tokenAfter(name)), LAMBDA b4 :
    WithLastRow(b4,
        onEnd(onSpace(onSlashError(LastRow(b4),
            invalidTokenMessage(tokenAfter(name), "Space", "Slash")), nextState(b1)))))))

\* The delimiter row updateRecursive creates before the current parameter
\* when the last token was not a slash.
delimiterRow(p, b0, paramNumber) ==
    LET names == sliceNames(p)
        sp == p.param
    IN With(nextDelimiterRow(b0,
                delimiterBetween(structFieldName(sp, b0.structName, paramNumber - 1),
                                 structFieldName(sp, b0.structName, paramNumber))), LAMBDA d0 :
       With(onSlash(LastRow(d0), nextState(d0)), LAMBDA d1 :
       WithLastRow(d0,
           IF p.min > 1 THEN onEndError(d1, parametersNotSpecifiedMessage(From(names, 1)))
           ELSE onEnd(d1))))

RECURSIVE updateRecursive(_, _, _, _, _)

\* The branch of updateRecursive with parameters left to process.
splitCases(p, update, b0, paramNumber, lastSlash) ==
    LET names == sliceNames(p)
        sp == p.param
        name == structFieldName(sp, b0.structName, paramNumber)
        param == sp.params[paramNumber + 1]
        exp == expected(param.setter)
        delimiterState == Len(b0.builders)
    IN With(IF ~lastSlash THEN delimiterRow(p, b0, paramNumber) ELSE b0, LAMBDA b1 :
       With(nextEmptyRow(b1), LAMBDA b2 :
       With(WithLastRow(b2,
                baseUpdate(param,
                    onCommentError(onUnknownError(onSpaceError(LastRow(b2),
                        invalidTokenMessage(name, exp, "Space")),
                        invalidTokenMessage(name, exp, "Unknown")),
                        impossibleTokenMessage(name, "Comment")),
                    nextState(b2), <<name>> \o From(names, 1))), LAMBDA b3 :
       With(updateRecursive(p, Append(update, Frame("has", paramNumber, lastSlash)),
                            b3, paramNumber + 1, FALSE), LAMBDA b4 :
       IF b4.panic # "" THEN b4
       ELSE
       With(IF paramNumber # Len(sp.params) - 1
            THEN updateRecursive(p, Append(update, Frame("no", paramNumber, lastSlash)),
                     WithRow(b4, Len(b1.builders),
                         onSlash(RowOf(b4, Len(b1.builders)), nextState(b4))),
                     paramNumber + 1, TRUE)
            ELSE WithRow(b4, Len(b1.builders),
                     onSlashError(RowOf(b4, Len(b1.builders)),
                         invalidTokenMessage(name, exp, "Slash"))), LAMBDA b5 :
       IF b5.panic # "" \/ lastSlash THEN b5
       ELSE WithRow(b5, delimiterState, onSpace(RowOf(b5, delimiterState), nextState(b5))))))))

updateRecursive(p, update, b, paramNumber, lastSlash) ==
    LET names == sliceNames(p) IN
    IF b.panic # "" THEN b
    ELSE
    With(changeName(b, sliceName(p, 0)), LAMBDA b0 :
    With(IF paramNumber < Len(p.param.params)
         THEN splitCases(p, update, b0, paramNumber, lastSlash)
         ELSE IF p.min > 1
         THEN waitSpace(b0, delimiterBetween(names[1], names[2]), From(names, 1))
         ELSE [b0 EXCEPT !.panic = "index out of range"], LAMBDA b8 :
    IF b8.panic # "" \/ lastSlash THEN b8
    ELSE remainingElements(p, update, b8, paramNumber)))

\* structSliceParameter.update.
structSliceParameterUpdate(p, b) ==
    With(changeName(b, sliceName(p, 0)), LAMBDA b0 :
    With(updateRequired(p.param, b0,
             requiredNames(p.param, b0.structName) \o From(sliceNames(p), 1)), LAMBDA b1 :
    IF b1.panic # "" THEN b1
    ELSE updateRecursive(p, <<>>, b1, p.param.requiredCount, FALSE)))

\* parameter.update.
parameterUpdate(p, b) ==
    IF p.type = "base" THEN baseParameterUpdate(p, b) ELSE structSliceParameterUpdate(p, b)

\* The loop of builder.build over the parameters, from index i on.
RECURSIVE buildFrom(_, _)
buildFrom(b, i) ==
    IF ~(i < Len(b.params)) THEN b
    ELSE With(parameterUpdate(b.params[i + 1], [b EXCEPT !.position = i]), LAMBDA b1 :
         IF b1.panic # "" THEN b1
         ELSE IF b1.position # Len(b1.params) - 1
         THEN With([b1 EXCEPT !.position = b1.position + 1], LAMBDA b3 :
              buildFrom(
                  waitSpace(b3,
                      delimiterBetween(ParamString(b.params[i + 1]),
                                       ParamString(b3.params[b3.position + 1])),
                      getUnread(b3)),
                  i + 1))
         ELSE buildFrom(b1, i + 1))

\* builder.build up to buildMachine: the rows of the machine.
build(b) ==
    With(buildFrom(initialize(b), 0), LAMBDA b1 :
        IF b1.needFinalize THEN finalize(b1) ELSE b1)

-----------------------------------------------------------------------------
(* obj/parser: the finiteStateMachine.                                     *)

\* The actions buildMachine sets itself.
StartAction == [kind |-> "start", conv |-> "", name |-> "", field |-> "", sub |-> "", append |-> FALSE]
ErrAction == [kind |-> "err", conv |-> "", name |-> "", field |-> "", sub |-> "", append |-> FALSE]

\* The action of the first state that leaves the element as it is.
ClearAction_Keeps ==
    [kind |-> "nil", conv |-> "", name |-> "", field |-> "", sub |-> "", append |-> FALSE]
ClearAction == [kind |-> "clear", conv |-> "", name |-> "", field |-> "", sub |-> "", append |-> FALSE]

\* The cells that lead to state s with an action.
cellsInto(builders, s) ==
    {c \in (1..Len(builders)) \X TokenTypes :
        builders[c[1]][c[2]].state = s /\ builders[c[1]][c[2]].action # NilAction}

\* builder.buildMachine: the transition table, the action performed on the
\* transition to each state, and the error messages.
buildMachine(b) ==
    LET size == Len(b.builders)
        preset == [s \in 0..(size - 1) |->
                     IF s = start THEN StartAction
                     ELSE IF s = err THEN ErrAction
                     ELSE IF s = first THEN ClearAction
                     ELSE NilAction]
        into == [s \in 0..(size - 1) |-> cellsInto(b.builders, s)]
        clash == \E s \in 0..(size - 1) :
                    \/ Cardinality(into[s]) > 1
                    \/ preset[s] # NilAction /\ into[s] # {}
        outside == \E i \in 1..size : \E t \in TokenTypes : ~(b.builders[i][t].state < size)
    IN [valueType |-> b.valueType,
        matrix |-> [s \in 0..(size - 1) |-> [t \in TokenTypes |-> b.builders[s + 1][t].state]],
        errors |-> [s \in 0..(size - 1) |-> [t \in TokenTypes |-> b.builders[s + 1][t].error]],
        actions |-> [s \in 0..(size - 1) |->
                       IF preset[s] # NilAction THEN preset[s]
                       ELSE IF into[s] = {} THEN NilAction
                       ELSE LET c == CHOOSE d \in into[s] : TRUE
                            IN b.builders[c[1]][c[2]].action],
        panic |-> IF b.panic # "" THEN b.panic
                  ELSE IF outside THEN "index out of range"
                  ELSE IF clash THEN "two actions are specified when transitioning to the same state"
                  ELSE ""]

\* buildParser.
buildParser(elementType, t) == buildMachine(build(newBuilder(elementType, t)))

\* finiteStateMachine.transition and message.
transition(m, tokenType, state) == m.matrix[state][tokenType]
message(m, tokenType, state) == m.errors[state][tokenType]

\* The registry: a machine for vertices and for faces, nil for every other element.
VertexMachine == buildParser("vertex", VertexType)
FaceMachine == buildParser("face", FaceType)
parsersRegistry == [vertex |-> VertexMachine, face |-> FaceMachine]

\* The zero value reflect.New creates for an element type.
ZeroFloat == <<0, 0>>
NewElement(elementType) ==
    IF elementType = "vertex"
    THEN [X |-> ZeroFloat, Y |-> ZeroFloat, Z |-> ZeroFloat, W |-> ZeroFloat]
    ELSE [Vertices |-> <<>>]
NewFaceVertex_Unset == [Index |-> 0, Texture |-> 1, Normal |-> 1]
NewFaceVertex == [Index |-> 0, Texture |-> 0, Normal |-> 0]

-----------------------------------------------------------------------------
(* strconv: the conversions the setters use.                               *)

DigitValue(c) == CHOOSE d \in 0..9 : ToString(d) = c

RECURSIVE DigitsValue(_, _)
DigitsValue(cs, acc) ==
    IF cs = <<>> THEN acc ELSE DigitsValue(Tail(cs), 10 * acc + DigitValue(Head(cs)))

AllDigits(cs) == cs # <<>> /\ \A i \in 1..Len(cs) : cs[i] \in Digits

\* The longest literal whose value the model computes; every such literal is
\* within the range of int64 and is read exactly by float64. A longer
\* literal ParseFloat reads is the float64 nearest to it, not computed.
MaxDigits == 9

\* The digits of the largest int64, 9223372036854775807.
MaxInt64 ==
    <<"9", "2", "2", "3", "3", "7", "2", "0", "3", "6", "8", "5", "4", "7", "7", "5", "8",
      "0", "7">>

\* The digits without the zeros they begin with.
RECURSIVE Significant(_)
Significant(cs) == IF cs # <<>> /\ Head(cs) = "0" THEN Significant(Tail(cs)) ELSE cs

\* The number a is greater than b, two numbers of as many digits.
RECURSIVE Greater(_, _)
Greater(a, b) ==
    IF a = <<>> THEN FALSE
    ELSE IF Head(a) # Head(b) THEN DigitValue(Head(a)) > DigitValue(Head(b))
    ELSE Greater(Tail(a), Tail(b))

\* The literal is outside int64: -9223372036854775808 is the least int64.
OutOfRange(neg, body) ==
    With(Significant(body), LAMBDA s :
        \/ Len(s) > Len(MaxInt64)
        \/ /\ Len(s) = Len(MaxInt64)
           /\ Greater(s, MaxInt64)
           /\ ~(neg /\ s = SubSeq(MaxInt64, 1, Len(MaxInt64) - 1) \o <<"8">>))

\* strconv.ParseInt(token, 10, 64): an optional sign and decimal digits, an
\* error when the number is outside int64.
ParseInt(token) ==
    LET neg == token # <<>> /\ token[1] = "-"
        body == IF neg THEN Tail(token) ELSE token
    IN IF ~AllDigits(body) THEN [ok |-> FALSE, val |-> 0]
       ELSE IF OutOfRange(neg, body) THEN [ok |-> FALSE, val |-> 0]
       ELSE [ok |-> TRUE, val |-> IF neg THEN 0 - DigitsValue(body, 0) ELSE DigitsValue(body, 0)]

\* A float64 is modelled by the decimal it was read from, n / 10^k with
\* trailing zeros of the fraction dropped; literals of up to MaxDigits digits
\* are distinct float64 values exactly when these pairs differ.
RECURSIVE Normal(_, _)
Normal(n, k) == IF k > 0 /\ n % 10 = 0 THEN Normal(n \div 10, k - 1) ELSE <<n, k>>

DotIndex(cs) == IF \E i \in 1..Len(cs) : cs[i] = "." THEN CHOOSE i \in 1..Len(cs) : cs[i] = "." ELSE 0

\* strconv.ParseFloat(token, 64) on a decimal literal.
ParseFloat(token) ==
    LET neg == token # <<>> /\ token[1] = "-"
        body == IF neg THEN Tail(token) ELSE token
        dot == DotIndex(body)
        whole == IF dot = 0 THEN body ELSE SubSeq(body, 1, dot - 1)
        frac == IF dot = 0 THEN <<>> ELSE SubSeq(body, dot + 1, Len(body))
        ok == AllDigits(whole \o frac)
        n == DigitsValue(whole \o frac, 0)
    IN IF ~ok THEN [ok |-> FALSE, val |-> ZeroFloat]
       ELSE IF Len(whole \o frac) > MaxDigits
       THEN [ok |-> TRUE, val |-> [nearest |-> token]]
       ELSE [ok |-> TRUE, val |-> Normal(IF neg THEN 0 - n ELSE n, Len(frac))]

-----------------------------------------------------------------------------
(* obj/parser: the actions of a machine on its element.                    *)

\* ApplySetter whose sliceAppender adds no element once the slice has FaceMin.
ApplySetter_Capped(act, token, elem) ==
    LET r == IF act.conv = "int" THEN ParseInt(token) ELSE ParseFloat(token)
        failed == IF act.conv = "int"
                  THEN "failed to convert the token to an integer when reading " \o act.name
                  ELSE "failed to convert the token to a float when reading " \o act.name
        slice == IF act.append /\ Len(elem[act.field]) < FaceMin THEN Append(elem[act.field], NewFaceVertex) ELSE elem[act.field]
        grown == IF act.sub = "" THEN elem ELSE [elem EXCEPT ![act.field] = slice]
    IN IF ~r.ok THEN [element |-> grown, error |-> failed]
       ELSE IF act.sub = "" THEN [element |-> [elem EXCEPT ![act.field] = r.val], error |-> ""]
       ELSE [element |-> [elem EXCEPT ![act.field] =
                            [slice EXCEPT ![Len(slice)] = [@ EXCEPT ![act.sub] = r.val]]],
             error |-> ""]

\* A setter chain applied to the element: sliceAppender adds a zero slice
\* element before the token is converted, sliceSetter writes to the last one.
ApplySetter(act, token, elem) ==
    LET r == IF act.conv = "int" THEN ParseInt(token) ELSE ParseFloat(token)
        failed == IF act.conv = "int"
                  THEN "failed to convert the token to an integer when reading " \o act.name
                  ELSE "failed to convert the token to a float when reading " \o act.name
        slice == IF act.append THEN Append(elem[act.field], NewFaceVertex) ELSE elem[act.field]
        grown == IF act.sub = "" THEN elem ELSE [elem EXCEPT ![act.field] = slice]
    IN IF ~r.ok THEN [element |-> grown, error |-> failed]
       ELSE IF act.sub = "" THEN [element |-> [elem EXCEPT ![act.field] = r.val], error |-> ""]
       ELSE [element |-> [elem EXCEPT ![act.field] =
                            [slice EXCEPT ![Len(slice)] = [@ EXCEPT ![act.sub] = r.val]]],
             error |-> ""]

\* finiteStateMachine.action: the action registered for the state entered.
action(m, state, token, elem) ==
    LET act == m.actions[state] IN
    CASE act.kind = "start" ->
            [element |-> elem, error |-> "the action method is called in the start state"]
      [] act.kind = "err" ->
            [element |-> elem, error |-> "the action method is called in the err state"]
      [] act.kind = "clear" -> [element |-> NewElement(m.valueType), error |-> ""]
      [] act.kind = "nil" -> [element |-> elem, error |-> ""]
      [] act.kind = "set" -> ApplySetter(act, token, elem)

\* finiteStateMachine.result.
result(elem) == elem

-----------------------------------------------------------------------------
(* obj/parser: the Parser.                                                 *)

EndOfFile == "end of file"

\* elementDeclarationsMap: the element each keyword declares.
elementDeclarationsMap ==
    [v |-> "vertex", vt |-> "vertex texture", vn |-> "vertex normal",
     vp |-> "vertex parameter", cstype |-> "curve surface type", deg |-> "degree",
     bmat |-> "basis matrix", step |-> "step", p |-> "point", l |-> "line", f |-> "face",
     curv |-> "curve", curv2 |-> "curve 2D", surf |-> "surface", parm |-> "parameter",
     trim |-> "trim", hole |-> "hole", scrv |-> "special curve", sp |-> "special point",
     end |-> "end", con |-> "connect", g |-> "group", s |-> "smoothing group",
     mg |-> "merging group", o |-> "object", bevel |-> "bevel interpolation",
     c_interp |-> "color interpolation", d_interp |-> "dissolve interpolation",
     lod |-> "level of detail", maplib |-> "map library", usemap |-> "use mapping",
     usemtl |-> "use material", mtllib |-> "material library",
     shadow_obj |-> "shadow object", trace_obj |-> "trace object",
     ctech |-> "curve approximation technique",
     stech |-> "surface approximation technique", call |-> "call command",
     scmp |-> "scmp command", csh |-> "csh command"]

\* NewParser: a scanner that skips comments, and every message written.
NewParser(reader) ==
    [scanner |-> NewScanner(reader, TRUE), IgnoreWarnings |-> FALSE, IgnoreErrors |-> FALSE]

\* Parser.log: skips the rest of the line and, unless messages of this type
\* are ignored, writes one message with the place of the token.
\* log that, when messages of this type are ignored, leaves the rest of the
\* line to be read.
log_KeepsLine(sc, out, ignore, msg, token, t) ==
    IF ignore THEN [scanner |-> sc, Output |-> out]
    ELSE [scanner |-> SkipLine(sc),
          Output |-> Append(out, [type |-> t, message |-> msg])]

\* log that skips the line and writes nothing.
log_Silent(sc, out, ignore, msg, token, t) == [scanner |-> SkipLine(sc), Output |-> out]

log(sc, out, ignore, msg, token, t) ==
    IF ignore THEN [scanner |-> SkipLine(sc), Output |-> out]
    ELSE LET shown == IF token = <<"\n">> THEN "eol"
                      ELSE IF token = <<>> THEN "eof" ELSE Join(token, "")
             tokenLength == IF token = <<"\n">> \/ token = <<>> THEN 1 ELSE Len(token)
         IN With(SkipLine(IF sc.switchLine THEN sc ELSE hasScanner(sc)), LAMBDA s1 :
            [scanner |-> s1,
             Output |-> Append(out, [type |-> t, line |-> Line(s1) + 1,
                                     column |-> Column(sc) - tokenLength + 2,
                                     token |-> shown,
                                     message |-> msg \o ", the line will be skipped",
                                     lineString |-> LineString(s1),
                                     tokenLength |-> tokenLength])])

\* One pass of the loop of Parser.Next that skips empty lines.
emptyStep(st) ==
    With(ScannerNext(st.scanner), LAMBDA r :
        [scanner |-> r.scanner, type |-> r.type, token |-> r.token,
         done |-> ~(r.type = "EOL" \/ r.type = "Space")])

\* The first token that is neither EOL nor Space.
skipEmpty(sc) ==
    Run(emptyStep, [scanner |-> sc, type |-> "", token |-> <<>>, done |-> FALSE],
        Len(sc.reader) + 1)

\* One pass of the loop of Parser.Next that drives an elementParser: the next
\* token, the transition, and the action of the state entered. The call of
\* the action is a statement: what the action returns is not looked at.
\* m.element points to a value that clear() replaces by a new one: allocated
\* counts the values the run has made, and left is what the run has made of
\* the value m.element pointed to when the run began.
elementStep(st) ==
    With(parsersRegistry[st.elementType], LAMBDA p :
    With(ScannerNext(st.scanner), LAMBDA r :
    With(transition(p, r.type, st.state), LAMBDA next :
       IF next = start
       THEN [st EXCEPT !.scanner = r.scanner, !.state = next, !.done = TRUE,
                       !.outcome = "result", !.token = r.token]
       ELSE IF next = err
       THEN [st EXCEPT !.scanner = r.scanner, !.state = next, !.done = TRUE,
                       !.outcome = "error", !.token = r.token,
                       !.message = message(p, r.type, st.state)]
       ELSE With(action(p, next, r.token, st.element), LAMBDA a :
               [st EXCEPT !.scanner = r.scanner, !.state = next,
                          !.element = a.element,
                          !.allocated = IF p.actions[next].kind = "clear" THEN @ + 1 ELSE @,
                          !.left = IF p.actions[next].kind = "clear" /\ st.allocated = 0
                                   THEN st.element
                                   ELSE IF st.allocated = 0 THEN a.element ELSE @]))))

\* The loop that looks at one token more than the one that ends the line.
elementLoop_LooksAhead(elementType, sc, elem) ==
    With(Run(elementStep,
             [elementType |-> elementType, scanner |-> sc, state |-> start, element |-> elem,
              done |-> FALSE, outcome |-> "", message |-> "", token |-> <<>>,
              allocated |-> 0, left |-> elem],
             Len(sc.reader) + 1), LAMBDA run :
        [run EXCEPT !.scanner = ScannerNext(run.scanner).scanner])

\* The loop of Parser.Next over the tokens of one line, until the machine
\* enters start or err.
elementLoop(elementType, sc, elem) ==
    Run(elementStep,
        [elementType |-> elementType, scanner |-> sc, state |-> start, element |-> elem,
         done |-> FALSE, outcome |-> "", message |-> "", token |-> <<>>,
         allocated |-> 0, left |-> elem],
        Len(sc.reader) + 1)

\* logged that goes on from where the line began.
logged_Stays(st, l) == [st EXCEPT !.Output = l.Output]

\* Parser.Next after log: the line is skipped and the next one is read by the
\* next pass.
logged(st, l) == [st EXCEPT !.scanner = l.scanner, !.Output = l.Output]

\* endOfFile that returns the last vertex with EndOfFile.
endOfFile_Stale(st, r) ==
    [st EXCEPT !.scanner = r.scanner, !.done = TRUE, !.type = EndOfFile,
               !.value = st.element["vertex"]]

\* Parser.Next on the EOF token: EndOfFile and no element.
endOfFile(st, r) ==
    [st EXCEPT !.scanner = r.scanner, !.done = TRUE, !.type = EndOfFile, !.value = <<>>]

\* The body of Parser.Next on one line: st holds the scanner, the log and the
\* machines' elements. The call returns (done) with an element or EndOfFile;
\* where the code returns parser.Next() after a skipped line, the next line is
\* read by the next pass.
lineStep(st) ==
    With(skipEmpty(st.scanner), LAMBDA r :
    With(Join(r.token, ""), LAMBDA keyword :
       IF r.type = "EOF" THEN endOfFile(st, r)
       ELSE IF r.type = "Word" /\ keyword \in DOMAIN elementDeclarationsMap
       THEN With(elementDeclarationsMap[keyword], LAMBDA elementType :
            IF elementType \in DOMAIN parsersRegistry
            THEN With(elementLoop(elementType, r.scanner, st.element[elementType]), LAMBDA run :
                 IF run.outcome = "result"
                 THEN [st EXCEPT !.scanner = run.scanner,
                                 !.element[elementType] = run.element,
                                 !.runs = Append(@, run),
                                 !.done = TRUE, !.type = elementType,
                                 !.value = result(run.element)]
                 ELSE logged([st EXCEPT !.element[elementType] = run.element,
                                        !.runs = Append(@, run)],
                             log(run.scanner, st.Output, st.cfg.IgnoreErrors,
                                 run.message, run.token, "ERROR")))
            ELSE logged(st, log(r.scanner, st.Output, st.cfg.IgnoreWarnings,
                                "unsupported element format - " \o elementType,
                                r.token, "WARNING")))
       ELSE logged(st, log(r.scanner, st.Output, st.cfg.IgnoreErrors,
                           "error in the name of the element type", r.token, "ERROR"))))

\* Parser.Next: the element returned, and the scanner, the log and the
\* machines' elements the call leaves, with the runs of the machines the call
\* has made. Every pass but the last skips a line.
ParserNext(sc, out, elems, cfg) ==
    Run(lineStep,
        [scanner |-> sc, Output |-> out, element |-> elems, cfg |-> cfg,
         done |-> FALSE, type |-> EndOfFile, value |-> <<>>, runs |-> <<>>],
        Len(sc.reader) + 1)

-----------------------------------------------------------------------------
(* The specification of the Scanner: any bytes, token by token.            *)

\* One byte of each class of getSymbolType, and the tab.
ScanAlphabet == {"\n", " ", "\t", "#", "/", "-", ".", "1", "a", "&"}

\* Longer inputs: 123/-321, 0.0.1, a&a 1-1 and -1.1 a_1.
ScanExamples ==
    {<<"1", "2", "3", "/", "-", "3", "2", "1">>,
     <<"0", ".", "0", ".", "1">>,
     <<"a", "&", "a", " ", "1", "-", "1">>,
     <<"-", "1", ".", "1", "\t", "a", "_", "1">>}

\* The values of the variables a specification does not use.
IdleParser == [IgnoreWarnings |-> FALSE, IgnoreErrors |-> FALSE]
IdleElements == [vertex |-> NewElement("vertex"), face |-> NewElement("face")]
IdleFsm == [element |-> "", state |-> start, fed |-> <<>>, states |-> <<>>]

ScanInit ==
    /\ input \in SeqsUpTo(ScanAlphabet, MaxInput) \cup ScanExamples
    /\ \E skipComments \in BOOLEAN : scanner = NewScanner(input, skipComments)
    /\ tokens = <<>>
    /\ afterEOF = 0
    /\ parser = IdleParser
    /\ Output = <<>>
    /\ element = IdleElements
    /\ results = <<>>
    /\ fsm = IdleFsm

\* A call of Scanner.Next.
ScannerNextCall ==
    /\ afterEOF < MaxAfterEOF
    /\ LET r == ScannerNext(scanner) IN
        /\ scanner' = r.scanner
        /\ tokens' = Append(tokens, [call |-> "Next", type |-> r.type, token |-> r.token,
                                     position |-> Position(r.scanner),
                                     line |-> Line(r.scanner),
                                     reads |-> r.scanner.reads,
                                     errors |-> r.scanner.errors])
        /\ afterEOF' = IF r.type = "EOF" THEN afterEOF + 1 ELSE afterEOF
    /\ UNCHANGED <<input, parser, Output, element, results, fsm>>

\* A call of Scanner.SkipLine that moves the scanner.
ScannerSkipLineCall ==
    /\ SkipLine(scanner) # scanner
    /\ scanner' = SkipLine(scanner)
    /\ tokens' = Append(tokens, [call |-> "SkipLine", type |-> "", token |-> <<>>,
                                 position |-> Position(SkipLine(scanner)),
                                 line |-> Line(SkipLine(scanner)),
                                 reads |-> SkipLine(scanner).reads,
                                 errors |-> SkipLine(scanner).errors])
    /\ UNCHANGED <<input, afterEOF, parser, Output, element, results, fsm>>

ScanNext == ScannerNextCall \/ ScannerSkipLineCall

ScanSpec == ScanInit /\ [][ScanNext]_vars

-----------------------------------------------------------------------------
(* The specification of the Scanner on inputs longer than its buffer and   *)
(* on readers that deliver their bytes a few at a time.                    *)

\* The most bytes a reader of few bytes delivers by one Read.
MaxChunk == 2

\* A word of as many letters as the buffer has bytes.
FullBuffer == [i \in 1..bufsize |-> "a"]

\* Inputs longer than the buffer: a word of one more byte than a buffer; a
\* number that begins in one buffer and ends in the next; two buffers exactly,
\* a line each.
OverBuffer == [i \in 1..(bufsize + 1) |-> "a"]
Straddling ==
    [i \in 1..(bufsize - 2) |-> "a"] \o <<" ", "1", "2", ".", "5", "\n", "a">>
TwoBuffers ==
    [i \in 1..(2 * bufsize) |-> IF i < bufsize THEN "1" ELSE IF i = bufsize THEN "\n" ELSE "a"]
LongInputs == {FullBuffer, OverBuffer, Straddling, TwoBuffers}

RefillAlphabet == {"\n", " ", "a", "1"}

\* A reader of a long input fills the buffer; a reader of a short input
\* delivers up to MaxChunk bytes by a Read, or all it has.
RefillInit ==
    /\ \/ /\ input \in LongInputs
          /\ \E skipComments \in BOOLEAN : scanner = NewScanner(input, skipComments)
       \/ /\ input \in SeqsUpTo(RefillAlphabet, MaxInput)
          /\ \E chunk \in (1..MaxChunk) \cup {bufsize} :
                scanner = [NewScanner(input, TRUE) EXCEPT !.chunk = chunk]
    /\ tokens = <<>>
    /\ afterEOF = 0
    /\ parser = IdleParser
    /\ Output = <<>>
    /\ element = IdleElements
    /\ results = <<>>
    /\ fsm = IdleFsm

RefillSpec == RefillInit /\ [][ScanNext]_vars

-----------------------------------------------------------------------------
(* The specification of the Scanner on a reader whose byte source has a    *)
(* fault: a Read returns an error that is not io.EOF.                      *)

\* Inputs of a few bytes, and inputs that fill the buffer: a word of bufsize
\* letters, and the same with a space and a letter after it.
FaultAlphabet == {"\n", " ", "a"}
FaultInputs ==
    SeqsUpTo(FaultAlphabet, MaxInput) \cup {FullBuffer, FullBuffer \o <<" ", "a">>}

\* The faults of a reader of these bytes: after any byte that ends a Read or
\* the input, returned with the bytes before it or by the next Read, once or
\* by every Read from then on.
Faults(bytes) ==
    [at : {k \in 0..Len(bytes) : k < MaxInput + 1 \/ k >= bufsize},
     withData : BOOLEAN, lasting : BOOLEAN, err : {"fault"}]

FaultInit ==
    /\ input \in FaultInputs
    /\ \E f \in Faults(input) :
          scanner = [NewScanner(input, TRUE) EXCEPT !.fault = <<f>>]
    /\ tokens = <<>>
    /\ afterEOF = 0
    /\ parser = IdleParser
    /\ Output = <<>>
    /\ element = IdleElements
    /\ results = <<>>
    /\ fsm = IdleFsm

FaultSpec == FaultInit /\ [][ScanNext]_vars

-----------------------------------------------------------------------------
(* The specification of one compiled machine: any token types, one by one. *)

FsmInit ==
    /\ input = <<>>
    /\ scanner = NewScanner(<<>>, TRUE)
    /\ tokens = <<>>
    /\ afterEOF = 0
    /\ parser = IdleParser
    /\ Output = <<>>
    /\ element = IdleElements
    /\ results = <<>>
    /\ \E elementType \in DOMAIN parsersRegistry :
          fsm = [element |-> elementType, state |-> start, fed |-> <<>>, states |-> <<>>]

\* The machine has entered start or err: the line is over.
FsmDone == fsm.fed # <<>> /\ fsm.state \in {start, err}

\* One round of the loop of Parser.Next: the machine reads one more token.
FsmTransition ==
    /\ ~FsmDone
    /\ Len(fsm.fed) < MaxTokens
    /\ \E tokenType \in TokenTypes :
          LET next == transition(parsersRegistry[fsm.element], tokenType, fsm.state) IN
          fsm' = [fsm EXCEPT !.state = next,
                             !.fed = Append(@, tokenType),
                             !.states = Append(@, fsm.state)]
    /\ UNCHANGED <<input, scanner, tokens, afterEOF, parser, Output, element, results>>

FsmNext == FsmTransition

FsmSpec == FsmInit /\ [][FsmNext]_vars

-----------------------------------------------------------------------------
(* The specification of the Parser: files of a few lines, element by       *)
(* element.                                                                *)

VertexXYZ == <<"v", " ", "1", " ", "2", " ", "3">>
VertexXYZW == <<"v", " ", "1", ".", "5", " ", "-", "2", " ", "0", ".", "2", "5", " ", "7">>
VertexEndsEarly == <<"v", " ", "1", " ", "2">>
VertexWrongKind == <<"v", " ", "1", " ", "x", " ", "3">>
VertexWrongDelimiter == <<"v", " ", "1", "/", "2", " ", "3">>
VertexTrailing == <<"v", " ", "1", " ", "2", " ", "3", " ", "4", " ", "5">>
UnknownKeyword == <<"x", " ", "1", " ", "2", " ", "3">>
FacePlain == <<"f", " ", "1", " ", "2", " ", "3">>
FaceFull == <<"f", " ", "1", "/", "2", "/", "3", " ", "4", "/", "5", "/", "6", " ", "7", "/", "8", "/", "9">>
FaceTwo == <<"f", " ", "1", " ", "2">>
FaceMixed == <<"f", " ", "1", "/", "2", "/", "3", " ", "4", "/", "5", "/", "6", " ", "7">>
FaceTextured == <<"f", " ", "1", "/", "2", " ", "3", "/", "4", " ", "5", "/", "6">>
FaceNormals ==
    <<"f", " ", "2", "0", "/", "/", "2", "0", " ", "1", "0", "/", "/", "1", "0", " ",
      "2", "1", "/", "/", "2", "1">>
Unsupported == <<"v", "t", " ", "1", " ", "2">>
NotAWord == <<"1", " ", "2">>
FaceTooLong == <<"f", " ">> \o [i \in 1..(Len(MaxInt64) + 1) |-> "9"] \o <<" ", "2", " ", "3">>
FaceFloatIndex == <<"f", " ", "1", ".", "5", " ", "2", " ", "3">>
VertexNoFields == <<"v", " ">>
FaceNoFields == <<"f", " ", "\t">>
EmptyLine == <<>>

\* The same lines with a comment before the end of the line.
Note == <<" ", "#", " ", "n", "o", "t", "e">>
VertexXYZNote == VertexXYZ \o Note
FacePlainNote == FacePlain \o Note

Lines == {VertexXYZ, VertexXYZW, VertexEndsEarly, VertexWrongKind, VertexWrongDelimiter,
          VertexTrailing, UnknownKeyword, FacePlain, FaceFull, FaceTwo, FaceMixed,
          FaceTextured, FaceNormals, Unsupported, NotAWord, FaceTooLong, FaceFloatIndex, VertexNoFields,
          FaceNoFields, EmptyLine,
          VertexXYZNote, FacePlainNote}

RECURSIVE Terminated(_)
Terminated(ls) == IF ls = <<>> THEN <<>> ELSE Head(ls) \o <<"\n">> \o Terminated(Tail(ls))

\* Files of up to MaxLines lines, the last one with or without its newline.
Inputs ==
    LET files == {Terminated(ls) : ls \in SeqsUpTo(Lines, MaxLines)}
    IN files \cup {SubSeq(f, 1, Len(f) - 1) : f \in files \ {<<>>}}

\* The values the machines' elements have pointed to, in the order they were
\* made, the last one being the one m.element points to; and, for each call
\* of Next, the number of the value its result points to, 0 for no element.
ParserHeap ==
    [heap |-> [vertex |-> <<NewElement("vertex")>>, face |-> <<NewElement("face")>>],
     refs |-> <<>>]

\* The values after the runs: a run works on the value m.element points to
\* until it makes a new one.
RECURSIVE HeapAfter(_, _)
HeapAfter(heap, runs) ==
    IF runs = <<>> THEN heap
    ELSE With(Head(runs), LAMBDA run :
         With([heap EXCEPT ![run.elementType][Len(heap[run.elementType])] = run.left],
              LAMBDA h :
         HeapAfter(IF run.allocated = 0 THEN h
                   ELSE [h EXCEPT ![run.elementType] = Append(@, run.element)],
                   Tail(runs))))

Init ==
    /\ input \in Inputs
    /\ scanner = NewParser(input).scanner
    /\ parser = [IgnoreWarnings |-> NewParser(input).IgnoreWarnings,
                 IgnoreErrors |-> NewParser(input).IgnoreErrors]
    /\ tokens = <<>>
    /\ afterEOF = 0
    /\ Output = <<>>
    /\ element = IdleElements
    /\ results = <<>>
    /\ fsm = ParserHeap

\* What a call of Parser.Next that returned r leaves behind.
Returned(r) ==
    /\ scanner' = r.scanner
    /\ Output' = r.Output
    /\ element' = r.element
    /\ results' = Append(results, [type |-> r.type, value |-> r.value, returned |-> r.done])
    /\ afterEOF' = IF r.type = EndOfFile THEN afterEOF + 1 ELSE afterEOF

\* A call of Parser.Next.
ParserNextCall ==
    /\ afterEOF < MaxAfterEOF
    /\ Returned(ParserNext(scanner, Output, element, parser))
    /\ With(HeapAfter(fsm.heap, ParserNext(scanner, Output, element, parser).runs), LAMBDA h :
         With(ParserNext(scanner, Output, element, parser).type, LAMBDA type :
            fsm' = [heap |-> h,
                    refs |-> Append(fsm.refs, IF type = EndOfFile THEN 0 ELSE Len(h[type]))]))
    /\ UNCHANGED <<input, tokens, parser>>

Next == ParserNextCall

Spec == Init /\ [][Next]_vars

-----------------------------------------------------------------------------
(* The specification of the Parser on one line of a face of any number of  *)
(* vertices, all in one format.                                            *)

\* The most vertices of the line.
MaxRepeat == 6

\* The formats of a vertex of a face: which optional fields are written.
Formats == {<<FALSE, FALSE>>, <<TRUE, FALSE>>, <<FALSE, TRUE>>, <<TRUE, TRUE>>}

\* The vertex number i written in the format: i, i/i, i//i or i/i/i.
DigitChars == <<"1", "2", "3", "4", "5", "6", "7", "8", "9">>
WrittenVertex(i, format) ==
    <<DigitChars[i]>>
    \o (IF format[1] THEN <<"/", DigitChars[i]>> ELSE IF format[2] THEN <<"/">> ELSE <<>>)
    \o (IF format[2] THEN <<"/", DigitChars[i]>> ELSE <<>>)

\* The line f of the vertices 1 .. n, a space before each.
RepeatLine(n, format) ==
    <<"f">> \o Flatten([i \in 1..n |-> <<" ">> \o WrittenVertex(i, format)])

RepeatInit ==
    /\ \E n \in 1..MaxRepeat : \E format \in Formats : \E end \in {<<>>, <<"\n">>} :
          input = RepeatLine(n, format) \o end
    /\ scanner = NewParser(input).scanner
    /\ parser = [IgnoreWarnings |-> NewParser(input).IgnoreWarnings,
                 IgnoreErrors |-> NewParser(input).IgnoreErrors]
    /\ tokens = <<>>
    /\ afterEOF = 0
    /\ Output = <<>>
    /\ element = IdleElements
    /\ results = <<>>
    /\ fsm = ParserHeap

RepeatSpec == RepeatInit /\ [][Next]_vars

-----------------------------------------------------------------------------
(* The specification of two Parsers at work on two inputs at once: each    *)
(* has its scanner and has read the keyword of its line; both drive the    *)
(* machine the registry holds for the element, token by token, in any      *)
(* order. The machine's element is the one field m.element.                *)

\* The pairs of lines of one element two Parsers read.
SharedLines ==
    ({VertexXYZ, VertexXYZW} \X {VertexXYZ, VertexXYZW})
        \cup ({FacePlain, FaceTextured, FaceNormals} \X {FacePlain, FaceTextured, FaceNormals})

\* A Parser that has read the keyword of its line and is about to enter the
\* loop over the tokens of the line.
AtKeyword(line) ==
    With(skipEmpty(NewParser(line).scanner), LAMBDA r :
        [elementType |-> elementDeclarationsMap[Join(r.token, "")], scanner |-> r.scanner,
         state |-> start, element |-> <<>>, done |-> FALSE, outcome |-> "",
         message |-> "", token |-> <<>>, allocated |-> 0, left |-> <<>>])

SharedInit ==
    /\ input \in SharedLines
    /\ fsm = [i \in 1..2 |-> AtKeyword(input[i])]
    /\ scanner = NewScanner(<<>>, TRUE)
    /\ tokens = <<>>
    /\ afterEOF = 0
    /\ parser = IdleParser
    /\ Output = <<>>
    /\ element = IdleElements
    /\ results = <<>>

\* One round of the loop of Parser.Next made by the Parser i: the token is
\* read from its own scanner, the action works on the machine's element, and
\* result returns the machine's element.
SharedStep(i) ==
    /\ ~fsm[i].done
    /\ With(elementStep([fsm[i] EXCEPT !.element = element[fsm[i].elementType]]), LAMBDA st :
          /\ fsm' = [fsm EXCEPT ![i] = [st EXCEPT !.element = <<>>]]
          /\ element' = [element EXCEPT ![st.elementType] = st.element]
          /\ results' = IF st.done /\ st.outcome = "result"
                         THEN Append(results, [type |-> st.elementType,
                                               value |-> result(st.element),
                                               returned |-> TRUE, parser |-> i])
                         ELSE results
          /\ Output' = IF st.done /\ st.outcome = "error"
                        THEN log(st.scanner, Output, FALSE, st.message, st.token, "ERROR").Output
                        ELSE Output)
    /\ UNCHANGED <<input, scanner, tokens, afterEOF, parser>>

SharedNext == \E i \in 1..2 : SharedStep(i)

SharedSpec == SharedInit /\ [][SharedNext]_vars

-----------------------------------------------------------------------------
(* obj: the parser of the vertex written by hand, and the Parser that      *)
(* drives it. It reads v x y z [w] and does not support the weight w.      *)

\* The state of successful completion with a warning.
warn == 2

\* vertexParser.action in the states that read a coordinate.
readCoordinate(tokenType, token, point, field, name, next, missing) ==
    IF tokenType \in {"Int", "Float"}
    THEN IF ParseFloat(token).ok
         THEN [state |-> next, point |-> [point EXCEPT ![field] = ParseFloat(token).val],
               message |-> ""]
         ELSE [state |-> err, point |-> point,
               message |-> "could not get float for " \o name
                             \o " coordinate from its string representation"]
    ELSE IF tokenType \in {"Word", "Slash", "Unknown"}
    THEN [state |-> err, point |-> point,
          message |-> "invalid " \o name \o " coordinate, expected: FLOAT, received: "
                        \o TokenTypeString(tokenType)]
    ELSE IF tokenType \in {"EOL", "EOF"}
    THEN [state |-> err, point |-> point, message |-> missing]
    ELSE [state |-> err, point |-> point,
          message |-> "impossible token was obtained when reading the " \o name
                        \o " coordinate - " \o TokenTypeString(tokenType)]

\* vertexParser.action in the states that read the space between two coordinates.
readDelimiterBetween(tokenType, point, before, after, next, missing) ==
    IF tokenType = "Space" THEN [state |-> next, point |-> point, message |-> ""]
    ELSE IF tokenType = "Slash"
    THEN [state |-> err, point |-> point,
          message |-> "invalid delimiter format between " \o before \o " and " \o after
                        \o " coordinates, expected: SPACE, received: SLASH"]
    ELSE IF tokenType \in {"EOL", "EOF"}
    THEN [state |-> err, point |-> point, message |-> missing]
    ELSE [state |-> err, point |-> point,
          message |-> "impossible token was obtained after reading the " \o before
                        \o " coordinate - " \o TokenTypeString(tokenType)]

weightIgnored == "unsupported vertex parameter - weight, the parameter will be ignored"

\* vertexParser.action: the next state, the vertex and the message.
vertexParserAction(tokenType, state, token, point) ==
    LET to(s) == [state |-> s, point |-> point, message |-> ""]
        fail(msg) == [state |-> err, point |-> point, message |-> msg]
        name == TokenTypeString(tokenType)
    IN CASE state = start ->
               IF tokenType = "Space"
               THEN [state |-> 3, point |-> [X |-> ZeroFloat, Y |-> ZeroFloat, Z |-> ZeroFloat],
                     message |-> ""]
               ELSE fail("impossible token was obtained in the start state - " \o name)
         [] state = err -> fail("parser cannot be used in the error state")
         [] state = warn -> fail("parser cannot be used in the warning state")
         [] state = 3 -> readCoordinate(tokenType, token, point, "X", "X", 4,
                                        "X, Y, and Z coordinates are not set")
         [] state = 4 -> readDelimiterBetween(tokenType, point, "X", "Y", 5,
                                              "Y and Z coordinates are not set")
         [] state = 5 -> readCoordinate(tokenType, token, point, "Y", "Y", 6,
                                        "Y and Z coordinates are not set")
         [] state = 6 -> readDelimiterBetween(tokenType, point, "Y", "Z", 7,
                                              "Z coordinate is not set")
         [] state = 7 -> readCoordinate(tokenType, token, point, "Z", "Z", 8,
                                        "Z coordinate is not set")
         [] state = 8 ->
               IF tokenType \in {"EOL", "EOF"} THEN to(start)
               ELSE IF tokenType = "Space" THEN to(9)
               ELSE IF tokenType = "Slash"
               THEN fail("invalid delimiter format between Z coordinate and weight parameter, expected: SPACE, received: SLASH")
               ELSE fail("impossible token was obtained after reading the Z coordinate - " \o name)
         [] state = 9 ->
               IF tokenType \in {"EOL", "EOF"} THEN to(start)
               ELSE IF tokenType \in {"Int", "Float"} THEN to(10)
               ELSE IF tokenType \in {"Word", "Slash", "Unknown"}
               THEN fail("invalid weight parameter, expected: FLOAT, received: " \o name)
               ELSE fail("impossible token was obtained when reading the weight parameter - " \o name)
         [] state = 10 ->
               IF tokenType \in {"EOL", "EOF"}
               THEN [state |-> warn, point |-> point, message |-> weightIgnored]
               ELSE IF tokenType = "Space" THEN to(11)
               ELSE IF tokenType = "Slash"
               THEN fail("unexpected token received after describing a vertex - SLASH")
               ELSE fail("impossible token was obtained after reading the weight parameter - " \o name)
         [] state = 11 ->
               IF tokenType \in {"EOL", "EOF"}
               THEN [state |-> warn, point |-> point, message |-> weightIgnored]
               ELSE IF tokenType \in {"Space", "Comment"}
               THEN fail("impossible token was obtained after reading the weight parameter - SPACE")
               ELSE fail("unexpected token received after describing a vertex - " \o name)
         [] OTHER -> fail("impossible state received, supported states: 0-11")

\* The registry of this Parser: the vertex has a parser.
objParsers == {"vertex"}

\* Parser.error: writes the message with the place of the token, then skips
\* the line.
ParserError(sc, out, ignore, msg, token) ==
    IF ignore THEN [scanner |-> SkipLine(sc), Output |-> out]
    ELSE [scanner |-> SkipLine(sc),
          Output |-> Append(out, [type |-> "ERROR", line |-> Line(sc),
                                  column |-> Column(sc) - Len(token), token |-> token,
                                  message |-> msg \o ", the line will be skipped"])]

\* Parser.warning: writes the message and does not skip the line, unless
\* warnings are ignored.
ParserWarning(sc, out, ignore, msg) ==
    IF ignore THEN [scanner |-> SkipLine(sc), Output |-> out]
    ELSE [scanner |-> sc,
          Output |-> Append(out, [type |-> "WARNING", line |-> Line(sc), message |-> msg])]

\* One pass of the loop that skips empty lines: only EOL is skipped.
objEmptyStep(st) ==
    With(ScannerNext(st.scanner), LAMBDA r :
        [scanner |-> r.scanner, type |-> r.type, token |-> r.token, done |-> r.type # "EOL"])

objSkipEmpty(sc) ==
    Run(objEmptyStep, [scanner |-> sc, type |-> "", token |-> <<>>, done |-> FALSE],
        Len(sc.reader) + 1)

\* One pass of the loop of Parser.Next over the tokens of a line.
objElementStep(st) ==
    With(ScannerNext(st.scanner), LAMBDA r :
    With(vertexParserAction(r.type, st.state, r.token, st.point), LAMBDA a :
        [st EXCEPT !.scanner = r.scanner, !.state = a.state, !.point = a.point,
                   !.message = a.message, !.token = r.token,
                   !.done = a.state \in {start, err, warn}]))

objElementLoop(sc, point) ==
    Run(objElementStep,
        [scanner |-> sc, state |-> start, point |-> point, done |-> FALSE,
         message |-> "", token |-> <<>>],
        Len(sc.reader) + 1)

\* Parser.Next in the warn state that goes on to the next line and returns
\* nothing for this one.
warned_Dropped(st, run, w) ==
    [st EXCEPT !.scanner = w.scanner, !.Output = w.Output, !.element.vertex = run.point]

\* Parser.Next in the warn state: the warning is written and the element
\* is returned.
warned(st, run, w) ==
    [st EXCEPT !.scanner = w.scanner, !.Output = w.Output, !.element.vertex = run.point,
               !.done = TRUE, !.type = "vertex", !.value = run.point]

\* The body of Parser.Next on one line.
objLineStep(st) ==
    With(objSkipEmpty(st.scanner), LAMBDA r :
    With(Join(r.token, ""), LAMBDA keyword :
       IF r.type = "EOF" THEN endOfFile(st, r)
       ELSE IF r.type = "Word" /\ keyword \in DOMAIN elementDeclarationsMap
       THEN With(elementDeclarationsMap[keyword], LAMBDA elementType :
            IF elementType \in objParsers
            THEN With(objElementLoop(r.scanner, st.element.vertex), LAMBDA run :
                 IF run.state = start
                 THEN [st EXCEPT !.scanner = run.scanner, !.element.vertex = run.point,
                                 !.done = TRUE, !.type = elementType, !.value = run.point]
                 ELSE IF run.state = warn
                 THEN warned(st, run, ParserWarning(run.scanner, st.Output,
                                                    st.cfg.IgnoreWarnings, run.message))
                 ELSE logged([st EXCEPT !.element.vertex = run.point],
                             ParserError(run.scanner, st.Output, st.cfg.IgnoreErrors,
                                         run.message, run.token)))
            ELSE With(ParserWarning(r.scanner, st.Output, st.cfg.IgnoreWarnings,
                                    "unsupported element format - " \o elementType
                                        \o ", the line will be skipped"), LAMBDA w :
                 logged(st, [scanner |-> SkipLine(w.scanner), Output |-> w.Output])))
       ELSE logged(st, ParserError(r.scanner, st.Output, st.cfg.IgnoreErrors,
                                   "error in the name of the element type", r.token))))

objParserNext(sc, out, elems, cfg) ==
    Run(objLineStep,
        [scanner |-> sc, Output |-> out, element |-> elems, cfg |-> cfg,
         done |-> FALSE, type |-> EndOfFile, value |-> <<>>],
        Len(sc.reader) + 1)

\* The lines this Parser reads, and the files of up to MaxLines of them.
ObjLines ==
    {VertexXYZ, VertexXYZW, VertexXYZW \o <<" ">>, VertexEndsEarly, VertexWrongKind,
     UnknownKeyword, Unsupported, EmptyLine}
ObjInputs ==
    LET files == {Terminated(ls) : ls \in SeqsUpTo(ObjLines, MaxLines)}
    IN files \cup {SubSeq(f, 1, Len(f) - 1) : f \in files \ {<<>>}}

ObjInit ==
    /\ input \in ObjInputs
    /\ scanner = NewScanner(input, TRUE)
    /\ parser = IdleParser
    /\ tokens = <<>>
    /\ afterEOF = 0
    /\ Output = <<>>
    /\ element = [vertex |-> [X |-> ZeroFloat, Y |-> ZeroFloat, Z |-> ZeroFloat]]
    /\ results = <<>>
    /\ fsm = IdleFsm

\* A call of Parser.Next.
ObjNextCall ==
    /\ afterEOF < MaxAfterEOF
    /\ Returned(objParserNext(scanner, Output, element, parser))
    /\ UNCHANGED <<input, tokens, parser, fsm>>

ObjNext == ObjNextCall

ObjSpec == ObjInit /\ [][ObjNext]_vars

-----------------------------------------------------------------------------
(* The specification of buildParser on a structure: the structure is any   *)
(* of a family of structures, and the registry holds its parser once       *)
(* buildParser has returned.                                               *)

\* The most fields before the composite field, and the most subfields.
MaxPrefix == 2
MaxSubfields == 3

\* Fields of the structure: an int, required or optional.
BaseFields == {Field("int", "A", "a", optional) : optional \in BOOLEAN}

\* Subfields: an int, required or optional, and a string.
SubFields == BaseFields \cup {Field("string", "S", "s", FALSE)}

\* A field that is a structure, and a field that is a slice of structures
\* with the tags delimiter and min.
Struct(fields) ==
    [kind |-> "struct", field |-> "C", name |-> "c", optional |-> FALSE,
     delimiter |-> "", min |-> 0, fields |-> fields, tags |-> {}, optionalTag |-> ""]
Composites ==
    {Struct(fs) : fs \in SeqsUpTo(SubFields, MaxSubfields) \ {<<>>}}
    \cup {SliceOfStruct("C", "c", delimiter, min, fs) :
            delimiter \in {"slash", "space"}, min \in {0, 1, 2},
            fs \in SeqsUpTo(SubFields, MaxSubfields) \ {<<>>}}

\* The structures: some fields, then a composite field or none, then a
\* required field or none.
\* The first fields: the base fields, and an int with the tag optional:"false".
FirstFields == BaseFields \cup {FieldWithOptional("int", "A", "a", "false")}

Schemas ==
    {before \o middle \o after :
        before \in SeqsUpTo(FirstFields, MaxPrefix),
        middle \in {<<>>} \cup {<<c>> : c \in Composites},
        after \in {<<>>, <<Field("int", "Z", "z", FALSE)>>}}

\* Structures with a field of text: a string, or a DirectionType first, alone
\* or before or after an int.
TextFields == {Field("string", "S", "s", FALSE), Field("uint8", "D", "d", FALSE)}
TextSchemas ==
    {before \o <<f>> \o after :
        before \in {<<>>, <<Field("int", "A", "a", FALSE)>>},
        f \in TextFields,
        after \in {<<>>, <<Field("int", "Z", "z", FALSE)>>}}

SchemaInit ==
    /\ input \in Schemas \cup {VertexType, FaceType} \cup TextSchemas
    /\ fsm = [compiled |-> FALSE, panic |-> "", installed |-> FALSE, rows |-> <<>>]
    /\ scanner = NewScanner(<<>>, TRUE)
    /\ tokens = <<>>
    /\ afterEOF = 0
    /\ parser = IdleParser
    /\ Output = <<>>
    /\ element = IdleElements
    /\ results = <<>>

\* buildParser on the structure, as the initialization of parsersRegistry
\* calls it: newBuilder, build or buildMachine panics, or the parser enters
\* the registry; rows are the rows buildMachine made its tables of.
SchemaCompile ==
    /\ ~fsm.compiled
    /\ With(newBuilder("element", input), LAMBDA b :
          IF b.panic # ""
          THEN fsm' = [compiled |-> TRUE, panic |-> b.panic, installed |-> FALSE, rows |-> <<>>]
          ELSE With(build(b), LAMBDA built :
               With(buildMachine(built).panic, LAMBDA panic :
                  fsm' = [compiled |-> TRUE, panic |-> panic, installed |-> panic = "",
                          rows |-> IF panic = "" THEN built.builders ELSE <<>>])))
    /\ UNCHANGED <<input, scanner, tokens, afterEOF, parser, Output, element, results>>

SchemaNext == SchemaCompile

SchemaSpec == SchemaInit /\ [][SchemaNext]_vars


-----------------------------------------------------------------------------
(* The Scanner's contract, under ScanSpec.                                 *)

\* Only Next was called, and the lexemes the calls returned, in order.
OnlyNext == \A i \in 1..Len(tokens) : tokens[i].call = "Next"
Lexemes == Flatten([i \in 1..Len(tokens) |-> tokens[i].token])
Returned_(type) == \E i \in 1..Len(tokens) : tokens[i].call = "Next" /\ tokens[i].type = type

\* C4 as stated, for every configuration of the Scanner: once Next has
\* returned EOF, the lexemes of the tokens the calls returned, concatenated
\* in order, are the input.
C4_LosslessAnyConfiguration ==
    (OnlyNext /\ afterEOF > 0) => Lexemes = input

\* C4, for a Scanner that does not skip comments: the lexemes returned so far,
\* concatenated in order, are exactly the bytes read so far, and are the whole
\* input once Next has returned EOF.
C4_LosslessWithComments ==
    (~scanner.SkipComments /\ OnlyNext) =>
        /\ Lexemes = SubSeq(input, 1, scanner.position)
        /\ afterEOF > 0 => Lexemes = input

\* An input of a comment and the end of its line, read to EOF with comments kept.
C4_Witness ==
    /\ ~scanner.SkipComments /\ OnlyNext /\ afterEOF > 0
    /\ Returned_("Comment") /\ Returned_("EOL")
    /\ Len(input) = MaxInput

\* C9: once Next has returned (EOF, ""), every later call of Next returns
\* (EOF, "") and leaves the position and the line where they were.
C9_EOFPermanent ==
    \A i \in 1..Len(tokens) : \A j \in (i + 1)..Len(tokens) :
        (tokens[i].call = "Next" /\ tokens[i].type = "EOF" /\ tokens[j].call = "Next") =>
            /\ tokens[i].token = <<>>
            /\ tokens[j].type = "EOF" /\ tokens[j].token = <<>>
            /\ tokens[j].position = tokens[i].position
            /\ tokens[j].line = tokens[i].line

\* Two calls of Next after the one that first returned EOF, on an input of
\* more than one line.
C9_Witness ==
    /\ afterEOF = MaxAfterEOF
    /\ Len(tokens) > MaxAfterEOF
    /\ tokens[Len(tokens)].type = "EOF"
    /\ tokens[Len(tokens)].line > 0

\* C10: a Scanner that skips comments never returns a token of type Comment.
C10_NoCommentReturned ==
    scanner.SkipComments => ~Returned_("Comment")

\* The bytes that end a run, and the shapes of a run.
Delimiters == {"\n", " ", "\t", "/", "#"}
Unsigned(run) == IF run # <<>> /\ run[1] = "-" THEN Tail(run) ELSE run
IsInt(run) == AllDigits(Unsigned(run))
IsFloat(run) ==
    \E d \in 1..Len(Unsigned(run)) :
        /\ Unsigned(run)[d] = "."
        /\ AllDigits(SubSeq(Unsigned(run), 1, d - 1))
        /\ AllDigits(SubSeq(Unsigned(run), d + 1, Len(Unsigned(run))))
IsWord(run) ==
    /\ run # <<>> /\ run[1] \in Letters
    /\ \A i \in 1..Len(run) : run[i] \in Letters \cup Digits
RunTypes == {"Int", "Float", "Word", "Unknown"}

\* C12: every Int, Float, Word or Unknown token Next returns is a maximal run
\* of the input: it has no newline, space, tab, slash or hash, it starts at
\* the beginning of the input or after one of these bytes, and it ends at
\* the end of the input or before one of them; it is Int iff it is an
\* optional minus and digits, Float iff it is an optional minus, digits, a
\* dot and digits, Word iff it is a letter or underscore followed by
\* letters, digits and underscores, and Unknown otherwise.
C12_TokenClassification ==
    \A i \in 1..Len(tokens) :
        (tokens[i].call = "Next" /\ tokens[i].type \in RunTypes) =>
            LET run == tokens[i].token
                last == tokens[i].position + 1
                before == last - Len(run)
            IN /\ run # <<>>
               /\ run = SubSeq(input, before + 1, last)
               /\ \A k \in 1..Len(run) : run[k] \notin Delimiters
               /\ before = 0 \/ input[before] \in Delimiters
               /\ last = Len(input) \/ input[last + 1] \in Delimiters
               /\ tokens[i].type = "Int" <=> IsInt(run)
               /\ tokens[i].type = "Float" <=> IsFloat(run)
               /\ tokens[i].type = "Word" <=> IsWord(run)
               /\ tokens[i].type = "Unknown" <=> ~(IsInt(run) \/ IsFloat(run) \/ IsWord(run))

\* 123/-321 read as Int, Slash, Int.
C12_Witness ==
    /\ Len(tokens) = 3
    /\ tokens[1].type = "Int" /\ tokens[1].token = <<"1", "2", "3">>
    /\ tokens[2].type = "Slash"
    /\ tokens[3].type = "Int" /\ tokens[3].token = <<"-", "3", "2", "1">>

-----------------------------------------------------------------------------
(* The face machine's contract, under FsmSpec.                             *)

\* The pieces of s between the occurrences of sep.
Pieces(s, sep) ==
    LET at == {i \in 1..Len(s) : s[i] = sep}
        cut(k) == IF k = 0 THEN 0
                  ELSE IF k = Cardinality(at) + 1 THEN Len(s) + 1
                  ELSE CHOOSE i \in at : Cardinality({j \in at : j < i}) = k - 1
    IN [k \in 1..(Cardinality(at) + 1) |-> SubSeq(s, cut(k - 1) + 1, cut(k) - 1)]

\* The token types of one face vertex: index, index/texture, index//normal,
\* index/texture/normal.
Shapes ==
    {<<"Int">>, <<"Int", "Slash", "Int">>, <<"Int", "Slash", "Slash", "Int">>,
     <<"Int", "Slash", "Int", "Slash", "Int">>}

\* The machine of the face has read a whole line: the tokens after the
\* keyword up to the end of the line or of the input.
FaceLine ==
    /\ fsm.element = "face"
    /\ fsm.fed # <<>>
    /\ fsm.fed[Len(fsm.fed)] \in {"EOL", "EOF"}

\* The repetitions of the line read: the tokens between the spaces, after the
\* space that follows the keyword.
Repetitions == Pieces(SubSeq(fsm.fed, 2, Len(fsm.fed) - 1), "Space")

\* Every repetition has the format of the first one.
SameFormat ==
    /\ fsm.fed[1] = "Space"
    /\ Repetitions[1] \in Shapes
    /\ \A k \in 1..Len(Repetitions) : Repetitions[k] = Repetitions[1]

\* The message of the transition that ended the line.
LastMessage ==
    message(parsersRegistry[fsm.element], fsm.fed[Len(fsm.fed)], fsm.states[Len(fsm.states)])

\* C2: a line the machine of the face accepts has at least FaceMin
\* repetitions, all with the optional fields of the first one; a whole line
\* leaves the machine in the start state or in the error state, so a line
\* whose repetitions differ in their optional fields ends in the error state.
C2_FormatConsistency ==
    /\ (fsm.element = "face" /\ fsm.fed # <<>> /\ fsm.state = start) =>
           FaceLine /\ SameFormat /\ Len(Repetitions) >= FaceMin
    /\ FaceLine => fsm.state \in {start, err}

\* An accepted line of four repetitions index/texture/normal.
C2_Witness ==
    /\ FaceLine /\ fsm.state = start
    /\ Len(Repetitions) = FaceMin + 1
    /\ Repetitions[1] = <<"Int", "Slash", "Int", "Slash", "Int">>

\* The names of the slots k + 1 .. FaceMin.
MissingSlots(k) == [i \in 1..(FaceMin - k) |-> "vertex number " \o ToString(k + i)]

\* C5: a line of the face that ends after fewer than FaceMin repetitions, all
\* in the format of the first one, ends in the error state with the message
\* that the slots not read are not specified; so does a line that ends
\* before its first repetition.
C5_MinCount ==
    /\ (FaceLine /\ SameFormat /\ Len(Repetitions) < FaceMin) =>
           /\ fsm.state = err
           /\ LastMessage = parametersNotSpecifiedMessage(MissingSlots(Len(Repetitions)))
    /\ (FaceLine /\ Len(fsm.fed) = 2 /\ fsm.fed[1] = "Space") =>
           /\ fsm.state = err
           /\ LastMessage = parametersNotSpecifiedMessage(
                                <<"index of the vertex number 1">> \o MissingSlots(1))
    /\ (FaceLine /\ Len(fsm.fed) = 1) =>
           /\ fsm.state = err
           /\ LastMessage = "all parameters of the face are not specified"

\* The line f 1/2 3/4: two repetitions with a texture, then the end of the line.
C5_Witness ==
    /\ FaceLine /\ SameFormat
    /\ Len(Repetitions) = FaceMin - 1
    /\ Repetitions[1] = <<"Int", "Slash", "Int">>
    /\ LastMessage = "parameter vertex number 3 is not specified"

-----------------------------------------------------------------------------
(* The Parser's contract, under Spec.                                      *)

\* The lines of the input: the bytes between the newlines, and those after
\* the last newline if there are any.
InputLines ==
    LET ps == Pieces(input, "\n")
    IN IF ps[Len(ps)] = <<>> THEN SubSeq(ps, 1, Len(ps) - 1) ELSE ps

\* The lines of C1: the well-formed lines of a vertex and the malformed lines.
WellFormedVertex == {VertexXYZ, VertexXYZW}
Malformed ==
    {VertexEndsEarly, VertexWrongKind, VertexWrongDelimiter, VertexTrailing, UnknownKeyword}

\* The record a well-formed line of a vertex stands for: v 1 2 3 is
\* (1, 2, 3, 0), v 1.5 -2 0.25 7 is (1.5, -2, 0.25, 7), a number n / 10^k
\* written <<n, k>>.
VertexOf(line) ==
    IF line = VertexXYZW
    THEN [X |-> <<15, 1>>, Y |-> <<0 - 2, 0>>, Z |-> <<25, 2>>, W |-> <<7, 0>>]
    ELSE [X |-> <<1, 0>>, Y |-> <<2, 0>>, Z |-> <<3, 0>>, W |-> <<0, 0>>]

\* The elements returned so far, and the numbers of the lines reported so far.
Records == SelectSeq(results, LAMBDA r : r.type # EndOfFile)
Reported == [i \in 1..Len(Output) |-> Output[i].line]

\* The numbers of the lines of the input that are in the set ls, in order.
NumbersOf(ls) ==
    LET at == {i \in 1..Len(InputLines) : InputLines[i] \in ls}
    IN [k \in 1..Cardinality(at) |->
          CHOOSE i \in at : Cardinality({j \in at : j < i}) = k - 1]

\* s is the beginning of t.
IsPrefix(s, t) == Len(s) <= Len(t) /\ s = SubSeq(t, 1, Len(s))

\* C1: on an input whose lines are well-formed lines of a vertex and
\* malformed lines, the calls of Next return the records of the well-formed
\* lines in the order of the input, one error is written for each malformed
\* line and none for another line, and when Next returns EndOfFile every
\* well-formed line has given its record and every malformed line its error.
C1_SkipAndContinue ==
    (\A i \in 1..Len(InputLines) : InputLines[i] \in WellFormedVertex \cup Malformed) =>
        LET good == NumbersOf(WellFormedVertex)
            bad == NumbersOf(Malformed)
            wanted == [k \in 1..Len(good) |->
                           [type |-> "vertex", value |-> VertexOf(InputLines[good[k]]),
                            returned |-> TRUE]]
        IN /\ IsPrefix(Records, wanted)
           /\ IsPrefix(Reported, bad)
           /\ \A i \in 1..Len(Output) : Output[i].type = "ERROR"
           /\ afterEOF > 0 => Records = wanted /\ Reported = bad
           /\ afterEOF > 0 => IsPrefix(Records, results)

\* A malformed line, then a well-formed one, read to EndOfFile.
C1_Witness ==
    /\ Len(InputLines) = MaxLines
    /\ InputLines[1] \in Malformed
    /\ InputLines[MaxLines] \in WellFormedVertex
    /\ afterEOF > 0
    /\ Len(Records) > 0 /\ Len(Output) > 0

\* C3: on an input without comments, the vertices Next returns are, in
\* order, the records of the lines v x y z and v x y z w of the input, each
\* with X, Y, Z the first three numbers and W the fourth or 0; when Next
\* returns EndOfFile each of these lines has given exactly one record.
C3_VertexRoundTrip ==
    (\A i \in 1..Len(InputLines) : InputLines[i] \notin {VertexXYZNote, FacePlainNote}) =>
        LET good == NumbersOf(WellFormedVertex)
            wanted == [k \in 1..Len(good) |-> VertexOf(InputLines[good[k]])]
            vertices == SelectSeq(results, LAMBDA r : r.type = "vertex")
            values == [k \in 1..Len(vertices) |-> vertices[k].value]
        IN /\ IsPrefix(values, wanted)
           /\ afterEOF > 0 => values = wanted

\* The lines v 1 2 3 and v 1.5 -2 0.25 7 read to EndOfFile.
C3_Witness ==
    /\ InputLines = <<VertexXYZ, VertexXYZW>>
    /\ afterEOF > 0
    /\ Len(results) = MaxLines + 1

\* The elements the Parser returns on the bytes in, up to EndOfFile.
RECURSIVE OutcomesFrom(_, _, _, _)
OutcomesFrom(sc, out, elems, n) ==
    IF n = 0 THEN <<>>
    ELSE With(ParserNext(sc, out, elems, parser), LAMBDA r :
         IF r.type = EndOfFile THEN <<>>
         ELSE <<[type |-> r.type, value |-> r.value]>>
                  \o OutcomesFrom(r.scanner, r.Output, r.element, n - 1))
Outcomes(in) == OutcomesFrom(NewParser(in).scanner, <<>>, IdleElements, Len(in) + 1)

\* The line without the comment Note at its end.
WithoutNote(line) ==
    IF Len(line) >= Len(Note) /\ SubSeq(line, Len(line) - Len(Note) + 1, Len(line)) = Note
    THEN SubSeq(line, 1, Len(line) - Len(Note))
    ELSE line

\* C6: on an input of well-formed lines of vertices and faces, each ended by
\* its newline and some with a comment before it, the elements returned up to EndOfFile are those returned on
\* the same lines without the comments.
C6_CommentTransparency ==
    (/\ afterEOF > 0
     /\ input = Terminated(InputLines)
     /\ \A i \in 1..Len(InputLines) :
           InputLines[i] \in {VertexXYZ, FacePlain, VertexXYZNote, FacePlainNote}) =>
        [i \in 1..Len(Records) |-> [type |-> Records[i].type, value |-> Records[i].value]]
            = Outcomes(Terminated([i \in 1..Len(InputLines) |-> WithoutNote(InputLines[i])]))

\* C7: every call of Next returns; a call made before the input is read to
\* its end reads at least one byte of it; a call made when the input is
\* read to its end returns EndOfFile. So no more calls than the input has
\* bytes return anything but EndOfFile.
C7_ForwardProgress ==
    [][/\ results'[Len(results')].returned
       /\ scanner.position < Len(input) => scanner'.position > scanner.position
       /\ scanner.position = Len(input) => results'[Len(results')].type = EndOfFile
       /\ Len(Records') <= Len(input)]_vars

\* EndOfFile returned after a line was reported and skipped and a record returned.
C7_Witness ==
    /\ afterEOF > 0
    /\ Len(Output) > 0
    /\ Len(Records) > 0
    /\ scanner.position = Len(input)

\* C8: once Next has returned EndOfFile, with no element, every later call
\* returns EndOfFile with no element.
C8_EndOfFilePermanent ==
    \A i \in 1..Len(results) : \A j \in i..Len(results) :
        results[i].type = EndOfFile =>
            results[j].type = EndOfFile /\ results[j].value = <<>>

\* A record, then EndOfFile from every later call.
C8_Witness ==
    /\ afterEOF = MaxAfterEOF
    /\ Len(Records) = MaxLines
    /\ results[Len(results)].type = EndOfFile

\* The lines of C11: a face in each of the four formats, every repetition in
\* the format of the first.
WellFormedFace == {FacePlain, FaceTextured, FaceFull, FaceNormals}

\* The record a well-formed line of a face stands for: one element for each
\* repetition, with the numbers between the slashes and 0 where none is
\* written.
FaceOf(line) ==
    LET reps == Pieces(SubSeq(line, 3, Len(line)), " ")
        number(fs, i) == IF i > Len(fs) THEN 0
                         ELSE IF fs[i] = <<>> THEN 0 ELSE DigitsValue(fs[i], 0)
        vertex(fs) == [Index |-> number(fs, 1), Texture |-> number(fs, 2),
                       Normal |-> number(fs, 3)]
    IN [Vertices |-> [k \in 1..Len(reps) |-> vertex(Pieces(reps[k], "/"))]]

\* C11: on an input whose lines are well-formed lines of a face, in any of
\* the four formats, nothing is reported and the faces Next returns are, in
\* the order of the input, the records of the lines: one element for each
\* repetition, in order, with the numbers written and 0 for a field that is
\* absent; when Next returns EndOfFile every line has given its record.
C11_FaceAcceptance ==
    (\A i \in 1..Len(InputLines) : InputLines[i] \in WellFormedFace) =>
        LET wanted == [k \in 1..Len(InputLines) |->
                           [type |-> "face", value |-> FaceOf(InputLines[k]),
                            returned |-> TRUE]]
        IN /\ IsPrefix(Records, wanted)
           /\ Output = <<>>
           /\ afterEOF > 0 => Records = wanted

\* The lines f 20//20 10//10 21//21 and f 1/2 3/4 5/6 read to EndOfFile.
C11_Witness ==
    /\ InputLines = <<FaceNormals, FaceTextured>>
    /\ afterEOF > 0
    /\ Len(Records) = MaxLines
    /\ Records[1].value.Vertices[1] = [Index |-> 20, Texture |-> 0, Normal |-> 20]
    /\ Records[MaxLines].value.Vertices[FaceMin] = [Index |-> 5, Texture |-> 6, Normal |-> 0]

\* The lines of C13: vt is a keyword with no parser; x and 1 are not keywords.
NoParser == {Unsupported}
NoKeyword == {UnknownKeyword, NotAWord}

\* The record a well-formed line stands for.
RecordOf(line) ==
    IF line \in WellFormedFace
    THEN [type |-> "face", value |-> FaceOf(line), returned |-> TRUE]
    ELSE [type |-> "vertex", value |-> VertexOf(line), returned |-> TRUE]

\* What a message says of its line: its type, its text, the number of the
\* line and the line.
Said(type, text, number) ==
    [type |-> type, message |-> text \o ", the line will be skipped", line |-> number,
     lineString |-> InputLines[number]]
Says == [i \in 1..Len(Output) |->
            [type |-> Output[i].type, message |-> Output[i].message, line |-> Output[i].line,
             lineString |-> Output[i].lineString]]

\* C13: on an input whose lines are well-formed lines, lines whose keyword
\* has no parser and lines that begin with no keyword, one warning
\* "unsupported element format" is written for each line whose keyword has
\* no parser and one error "error in the name of the element type" for each
\* line that begins with no keyword, in the order of the input and each with
\* the number and the text of its line; the records Next returns are those
\* of the well-formed lines, in order, so none is returned for a skipped
\* line and the line after it is read from its first token.
C13_UnsupportedAndUnknown ==
    (\A i \in 1..Len(InputLines) :
        InputLines[i] \in WellFormedVertex \cup WellFormedFace \cup NoParser \cup NoKeyword) =>
        LET good == NumbersOf(WellFormedVertex \cup WellFormedFace)
            bad == NumbersOf(NoParser \cup NoKeyword)
            wanted == [k \in 1..Len(good) |-> RecordOf(InputLines[good[k]])]
            said == [k \in 1..Len(bad) |->
                        IF InputLines[bad[k]] \in NoParser
                        THEN Said("WARNING", "unsupported element format - vertex texture", bad[k])
                        ELSE Said("ERROR", "error in the name of the element type", bad[k])]
        IN /\ IsPrefix(Records, wanted)
           /\ IsPrefix(Says, said)
           /\ afterEOF > 0 => Records = wanted /\ Says = said

\* The line vt 1 2, then a well-formed line of a face, read to EndOfFile.
C13_Witness ==
    /\ Len(InputLines) = MaxLines
    /\ InputLines[1] \in NoParser
    /\ InputLines[MaxLines] \in WellFormedFace
    /\ afterEOF > 0
    /\ Len(Records) = 1 /\ Len(Output) = 1 /\ Output[1].type = "WARNING"

-----------------------------------------------------------------------------
(* The machines of the registry under two Parsers, under SharedSpec.       *)

\* C14: when two Parsers read two lines of the same element at once, their
\* rounds in any order, each returns the record of its own line, the record
\* it returns when it reads the line alone, and nothing is reported.
C14_SharedReadOnly ==
    /\ Output = <<>>
    /\ \A k \in 1..Len(results) :
          results[k].value = RecordOf(input[results[k].parser]).value

-----------------------------------------------------------------------------
(* The checks of a structure, under SchemaSpec.                            *)

\* The composite fields of the structure, the repeated ones, and those whose
\* subfields a space delimits.
CompositeFields == {input[i] : i \in {j \in 1..Len(input) : input[j].kind \in {"struct", "[]struct"}}}
RepeatedFields == {f \in CompositeFields : f.kind = "[]struct"}
SpaceDelimited == {f \in CompositeFields : f.kind = "struct" \/ f.delimiter = "space"}

\* An optional field of fs comes before a required one.
OptionalThenRequired(fs) ==
    \E i \in 1..Len(fs) : \E j \in (i + 1)..Len(fs) : fs[i].optional /\ ~fs[j].optional

\* The six faults of C15.
RequiredAfterOptional ==
    OptionalThenRequired(input) \/ \E f \in CompositeFields : OptionalThenRequired(f.fields)
FirstIsOptional ==
    (input # <<>> /\ input[1].optional) \/ \E f \in CompositeFields : f.fields[1].optional
RepeatedNotLast == \E i \in 1..(Len(input) - 1) : input[i].kind = "[]struct"
OptionalBetweenSpaces ==
    \E f \in SpaceDelimited : \E i \in 1..Len(f.fields) : f.fields[i].optional
SubfieldNotNumeric ==
    \E f \in CompositeFields : \E i \in 1..Len(f.fields) :
        f.fields[i].kind \notin {"int", "float64"}
MinBelowOne == \E f \in RepeatedFields : f.min < 1

\* C15: buildParser panics, and the registry does not get a parser, on a
\* structure in which an optional field comes before a required one, the
\* first field or the first subfield of a composite is optional, a slice is
\* not the last field, a composite whose subfields a space delimits has an
\* optional subfield, a subfield of a composite is not numeric, or the min
\* of a slice is less than 1; no parser is in the registry before
\* buildParser has returned.
C15_SchemaValidation ==
    /\ ~fsm.compiled => ~fsm.installed
    /\ (/\ fsm.compiled
        /\ \/ RequiredAfterOptional \/ FirstIsOptional \/ RepeatedNotLast
           \/ OptionalBetweenSpaces \/ SubfieldNotNumeric \/ MinBelowOne)
           => fsm.panic # "" /\ ~fsm.installed

\* A structure whose only fault is that the min of its slice is 0, compiled.
C15_Witness ==
    /\ fsm.compiled
    /\ MinBelowOne
    /\ ~(\/ RequiredAfterOptional \/ FirstIsOptional \/ RepeatedNotLast
         \/ OptionalBetweenSpaces \/ SubfieldNotNumeric)
    /\ fsm.panic = "the min tag cannot accept values less than one"

-----------------------------------------------------------------------------
(* A number that is not converted, under Spec.                             *)

\* The lines of C16: the first index of the face f 99999999999999999999 2 3
\* is an Int token that is outside int64.
NotConverted == {FaceTooLong}

\* C16: on an input whose lines are well-formed lines and lines with a
\* number that is not converted, each line with such a number is reported
\* as an error with the message of the setter and gives no record, and the
\* records Next returns are those of the well-formed lines, in order.
C16_ConversionFailure ==
    (\A i \in 1..Len(InputLines) :
        InputLines[i] \in WellFormedVertex \cup WellFormedFace \cup NotConverted) =>
        LET good == NumbersOf(WellFormedVertex \cup WellFormedFace)
            bad == NumbersOf(NotConverted)
            wanted == [k \in 1..Len(good) |-> RecordOf(InputLines[good[k]])]
            said == [k \in 1..Len(bad) |->
                        Said("ERROR",
                             "failed to convert the token to an integer when reading index",
                             bad[k])]
        IN /\ IsPrefix(Records, wanted)
           /\ IsPrefix(Says, said)
           /\ afterEOF > 0 => Records = wanted /\ Says = said

-----------------------------------------------------------------------------
(* The vertex with a weight, under ObjSpec.                                *)

\* The lines v x y z and the lines v x y z w, with a space after w or not.
Unweighted == {VertexXYZ}
Weighted == {VertexXYZW, VertexXYZW \o <<" ">>}

\* The vertex a line stands for, without the weight.
PointOf(line) ==
    IF line \in Weighted
    THEN [X |-> VertexOf(VertexXYZW).X, Y |-> VertexOf(VertexXYZW).Y, Z |-> VertexOf(VertexXYZW).Z]
    ELSE [X |-> VertexOf(line).X, Y |-> VertexOf(line).Y, Z |-> VertexOf(line).Z]

\* C17: on an input whose lines are lines of a vertex, with a weight or
\* not, Next returns the vertex of every line, in order, the lines with a
\* weight included; one warning that the weight is ignored is written for
\* each line with a weight and nothing else is written; when Next returns
\* EndOfFile every line has given its vertex, so no line is skipped.
C17_WarningKeepsRecord ==
    (\A i \in 1..Len(InputLines) : InputLines[i] \in Unweighted \cup Weighted) =>
        LET wanted == [k \in 1..Len(InputLines) |->
                           [type |-> "vertex", value |-> PointOf(InputLines[k]),
                            returned |-> TRUE]]
            flagged == NumbersOf(Weighted)
        IN /\ IsPrefix(Records, wanted)
           /\ Len(Output) <= Len(flagged)
           /\ \A i \in 1..Len(Output) :
                 Output[i].type = "WARNING" /\ Output[i].message = weightIgnored
           /\ Len(Output) = Cardinality({k \in 1..Len(flagged) : flagged[k] <= Len(Records)})
           /\ afterEOF > 0 => Records = wanted /\ Len(Output) = Len(flagged)

\* A line with a weight, then a line without, read to EndOfFile.
C17_Witness ==
    /\ Len(InputLines) = MaxLines
    /\ InputLines[1] \in Weighted
    /\ InputLines[MaxLines] \in Unweighted
    /\ afterEOF > 0
    /\ Len(Records) = MaxLines
    /\ Len(Output) = 1

-----------------------------------------------------------------------------
(* The Scanner on a reader with a fault, under FaultSpec.                  *)

\* C18: once a call has given an error of Read to the function Error,
\* every later call of Next returns (EOF, ""), the function Error is not
\* called again and Read is not called again.
C18_FaultDegradation ==
    \A i \in 1..Len(tokens) : \A j \in (i + 1)..Len(tokens) :
        tokens[i].errors # <<>> =>
            /\ tokens[j].call = "Next" => tokens[j].type = "EOF" /\ tokens[j].token = <<>>
            /\ tokens[j].errors = tokens[i].errors
            /\ tokens[j].reads = tokens[i].reads

-----------------------------------------------------------------------------
(* The tables of the machines, under SchemaSpec.                           *)

-----------------------------------------------------------------------------
(* The machine of the vertex, under SchemaSpec.                            *)

\* The states of the vertex that read a coordinate, those that read the space
\* after one, and those in which the line may end.
VertexFieldStates == {2, 4, 6, 8}
VertexDelimiterStates == {3, 5, 7, 9}
VertexEndStates == {7, 8, 9, 10}

\* The state C20 gives for the state s and the token type t.
VertexCell(s, t) ==
    IF s = err THEN err
    ELSE IF t \in {"EOL", "EOF"} THEN (IF s \in VertexEndStates THEN start ELSE err)
    ELSE IF s = start /\ t = "Space" THEN first
    ELSE IF s \in VertexFieldStates /\ t \in {"Int", "Float"} THEN s + 1
    ELSE IF s \in VertexDelimiterStates /\ t = "Space" THEN s + 1
    ELSE err

\* C20: buildParser on the Vertex (the floats X, Y, Z and the optional float
\* W) makes a machine of exactly 11 states: start goes on only by a Space,
\* to the state 2; err goes to err by every token; the states 2, 4, 6, 8 go
\* on by an Int or a Float and the states 3, 5, 7, 9 by a Space; EOL and EOF
\* lead to start from the states 7, 8, 9 and 10 and to err from the others;
\* every other cell leads to err.
C20_VertexMachine ==
    (fsm.compiled /\ input = VertexType) =>
        /\ fsm.installed
        /\ Len(fsm.rows) = 11
        /\ \A s \in 0..10 : \A t \in TokenTypes : fsm.rows[s + 1][t].state = VertexCell(s, t)

\* buildParser has returned the machine of the Vertex.
C20_Witness ==
    /\ fsm.compiled
    /\ input = VertexType
    /\ Len(fsm.rows) = 11
    /\ fsm.rows[9]["EOL"].state = start
    /\ fsm.rows[7]["EOL"].state = err

-----------------------------------------------------------------------------
(* The tag optional:"false", under SchemaSpec.                             *)

\* The field without its tag optional, and the structure with its first
\* field so.
WithoutOptional(f) ==
    [f EXCEPT !.tags = @ \ {"optional"}, !.optionalTag = "", !.optional = FALSE]
FirstUntagged == [input EXCEPT ![1] = WithoutOptional(@)]

\* The first field has the tag optional with a text ParseBool reads as false.
FirstExplicitlyRequired ==
    /\ input # <<>>
    /\ "optional" \in input[1].tags
    /\ input[1].optionalTag \in FalseTexts

\* C21: buildParser on a structure whose first field has the tag
\* optional:"false" does what it does on the structure without that tag: it
\* panics on neither or on both, and the rows of the machine are the same.
C21_ExplicitFalseIsRequired ==
    (fsm.compiled /\ FirstExplicitlyRequired) =>
        With(newBuilder("element", FirstUntagged), LAMBDA b :
            /\ (fsm.panic = "") = (b.panic = "" /\ buildMachine(build(b)).panic = "")
            /\ fsm.installed => fsm.rows = build(b).builders)

-----------------------------------------------------------------------------
(* The tokens a number is read from, under Spec.                           *)

\* The lines of C22: the coordinates of v 1.5 -2 0.25 7 are Float and Int
\* tokens in turn, those of v 1 2 3 Int tokens; the first index of
\* f 1.5 2 3 is a Float token.
FloatForInt == {FaceFloatIndex}

\* C22: on an input whose lines are well-formed lines of a vertex, lines
\* f 1 2 3 and lines f 1.5 2 3, every coordinate of a vertex has the value
\* of its token, an Int or a Float token alike, and every line f 1.5 2 3
\* gives the error "invalid index, expected: INT, received: FLOAT" and no
\* record.
C22_NumberTokens ==
    (\A i \in 1..Len(InputLines) :
        InputLines[i] \in WellFormedVertex \cup {FacePlain} \cup FloatForInt) =>
        LET good == NumbersOf(WellFormedVertex \cup {FacePlain})
            bad == NumbersOf(FloatForInt)
            wanted == [k \in 1..Len(good) |-> RecordOf(InputLines[good[k]])]
            said == [k \in 1..Len(bad) |->
                        Said("ERROR", "invalid index, expected: INT, received: FLOAT", bad[k])]
        IN /\ IsPrefix(Records, wanted)
           /\ IsPrefix(Says, said)
           /\ afterEOF > 0 => Records = wanted /\ Says = said

\* The lines f 1.5 2 3 and v 1.5 -2 0.25 7 read to EndOfFile.
C22_Witness ==
    /\ InputLines = <<FaceFloatIndex, VertexXYZW>>
    /\ afterEOF > 0
    /\ Len(Output) = 1
    /\ Records = <<RecordOf(VertexXYZW)>>

-----------------------------------------------------------------------------
(* The reserved states of the machines, under SchemaSpec.                  *)

-----------------------------------------------------------------------------
(* A line that ends before its fields are read, under FsmSpec.             *)

\* The sequences made of elements of s in the order of s.
RECURSIVE SubSequences(_)
SubSequences(s) ==
    IF s = <<>> THEN {<<>>}
    ELSE LET rest == SubSequences(Tail(s))
         IN rest \cup {<<Head(s)>> \o r : r \in rest}

\* The machine has read a whole line: the tokens after the keyword up to the
\* end of the line or of the input.
WholeLine == fsm.fed # <<>> /\ fsm.fed[Len(fsm.fed)] \in {"EOL", "EOF"}

\* The numbers the machine has read, and the names of the required fields of
\* the vertex in the order of the structure.
NumbersRead == Cardinality({i \in 1..Len(fsm.fed) : fsm.fed[i] \in {"Int", "Float"}})
VertexRequired == requiredParamNames(VertexType, 1)

\* The names of the required fields of the face: the index of each of the
\* FaceMin vertices and the vertex itself; and the names of all subfields of
\* a vertex, the optional ones too.
FaceRequired ==
    Flatten([k \in 1..FaceMin |->
        <<"index of the vertex number " \o ToString(k), "vertex number " \o ToString(k)>>])
FaceSubfields(vertex) ==
    <<"index of the " \o vertex, "texture of the " \o vertex, "normal of the " \o vertex>>
FaceVertexNames ==
    {"vertex number " \o ToString(k) : k \in 1..FaceMin} \cup {"additional vertex"}

-----------------------------------------------------------------------------
(* A line of a keyword and no field, under Spec.                           *)

\* The lines of C25: the keyword, spaces, and the end of the line.
NoFields == {VertexNoFields, FaceNoFields}

\* The error of a line of C25: every required field of the element is named.
NoFieldsMessage(line) ==
    IF line = VertexNoFields
    THEN "parameters X coordinate, Y coordinate, Z coordinate are not specified"
    ELSE "parameters index of the vertex number 1, vertex number 2, vertex number 3 are not specified"

\* C25: on an input whose lines are well-formed lines and lines of a
\* keyword followed by spaces only, one error is written for each line
\* without fields, with the names of all required fields of its element, and
\* the records Next returns are those of the well-formed lines: no record is
\* returned for a line without fields.
C25_NoFieldsIsAnError ==
    (\A i \in 1..Len(InputLines) :
        InputLines[i] \in WellFormedVertex \cup WellFormedFace \cup NoFields) =>
        LET good == NumbersOf(WellFormedVertex \cup WellFormedFace)
            bad == NumbersOf(NoFields)
            wanted == [k \in 1..Len(good) |-> RecordOf(InputLines[good[k]])]
            said == [k \in 1..Len(bad) |->
                        Said("ERROR", NoFieldsMessage(InputLines[bad[k]]), bad[k])]
        IN /\ IsPrefix(Records, wanted)
           /\ IsPrefix(Says, said)
           /\ afterEOF > 0 => Records = wanted /\ Says = said

\* The lines v and f with spaces after them, read to EndOfFile.
C25_Witness ==
    /\ InputLines = <<VertexNoFields, FaceNoFields>>
    /\ afterEOF > 0
    /\ Len(Output) = MaxLines
    /\ Records = <<>>

-----------------------------------------------------------------------------
(* The vertices of a face, under RepeatSpec.                               *)

\* The number of vertices of the line and the format they are written in.
Repeated == CHOOSE n \in 1..MaxRepeat : \E format \in Formats : InputLines[1] = RepeatLine(n, format)
FormatRead == CHOOSE format \in Formats : InputLines[1] = RepeatLine(Repeated, format)

\* The vertex number i of the record of the line.
VertexRead(i) ==
    [Index |-> i,
     Texture |-> IF FormatRead[1] THEN i ELSE 0,
     Normal |-> IF FormatRead[2] THEN i ELSE 0]

\* C26: a line of a face of n vertices in one format, a space between them,
\* with n at least FaceMin, is accepted: the first call of Next returns the
\* face whose Vertices are exactly the n vertices of the line in the order of
\* the line, and nothing is reported.
C26_AnyNumberOfRepetitions ==
    (Repeated >= FaceMin /\ results # <<>>) =>
        /\ Output = <<>>
        /\ results[1].type = "face"
        /\ results[1].returned
        /\ results[1].value = [Vertices |-> [i \in 1..Repeated |-> VertexRead(i)]]

\* The line of MaxRepeat vertices with a texture and a normal has given its
\* record.
C26_Witness ==
    /\ Repeated = MaxRepeat
    /\ MaxRepeat > FaceMin
    /\ FormatRead = <<TRUE, TRUE>>
    /\ results # <<>>
    /\ Len(results[1].value.Vertices) = MaxRepeat
    /\ results[1].value.Vertices[MaxRepeat].Normal = MaxRepeat

-----------------------------------------------------------------------------
(* The structures buildParser accepts, under SchemaSpec.                   *)

\* The structure has a field and none of the faults of C15, and no field of
\* it has the tag optional with the text false.
ValidSchema ==
    /\ input # <<>>
    /\ ~(\/ RequiredAfterOptional \/ FirstIsOptional \/ RepeatedNotLast
         \/ OptionalBetweenSpaces \/ SubfieldNotNumeric \/ MinBelowOne)
    /\ \A i \in 1..Len(input) : input[i].optionalTag \notin FalseTexts

\* C27: buildParser on a valid structure returns: the registry gets the
\* parser, also when the structure has a slice of structures with min 1.
C27_ValidSchemasCompile ==
    (fsm.compiled /\ ValidSchema) => fsm.panic = "" /\ fsm.installed

-----------------------------------------------------------------------------
(* The delimiter of a slice of structures, under SchemaSpec.               *)

\* The structure is one slice of structures whose subfields a slash delimits
\* and whose first two subfields are required.
SlashDelimitedPair ==
    /\ Len(input) = 1
    /\ input[1].kind = "[]struct"
    /\ input[1].delimiter = "slash"
    /\ Len(input[1].fields) >= 2
    /\ ~input[1].fields[1].optional /\ ~input[1].fields[2].optional

\* The state of the machine after the space that follows the keyword and the
\* first subfield of the first element.
AfterFirstSubfield == fsm.rows[fsm.rows[start + 1]["Space"].state + 1]["Int"].state

\* C28: in the machine of a slice of structures whose subfields a slash
\* delimits, the state after the first of two required subfields goes on by
\* a Slash, to a state that reads the second subfield, and leads to err by a
\* Space.
C28_DeclaredDelimiter ==
    (fsm.installed /\ SlashDelimitedPair) =>
        /\ fsm.rows[AfterFirstSubfield + 1]["Slash"].state # err
        /\ fsm.rows[fsm.rows[AfterFirstSubfield + 1]["Slash"].state + 1]["Int"].state # err
        /\ fsm.rows[AfterFirstSubfield + 1]["Space"].state = err

-----------------------------------------------------------------------------
(* SkipLine after a token, under ScanSpec.                                 *)

\* The last call was a call of Next, which returned the offending token.
AfterToken == tokens # <<>> /\ tokens[Len(tokens)].call = "Next"

\* The number of bytes up to the end of the line that holds the byte number
\* p + 1, its newline included; the length of the input if no newline follows.
EndOfLineFrom(p) ==
    IF \E i \in (p + 1)..Len(input) : input[i] = "\n"
    THEN CHOOSE i \in (p + 1)..Len(input) :
             input[i] = "\n" /\ \A j \in (p + 1)..(i - 1) : input[j] # "\n"
    ELSE Len(input)

\* Where the line after the offending token begins: where the scanner is if
\* the token is the EOL of its line, after the next newline otherwise.
FollowingLine ==
    IF tokens[Len(tokens)].type = "EOL" THEN scanner.position
    ELSE EndOfLineFrom(scanner.position)

\* C29: SkipLine called after a token leaves the scanner at the beginning
\* of the line that follows the line of the token, both when the token is in
\* the middle of its line and when it is the EOL of its line; the next call
\* of Next returns EOF if no line follows and, comments not skipped, the
\* token the following line begins with.
C29_SkipLineRecovery ==
    AfterToken =>
        With(ScannerNext(SkipLine(scanner)), LAMBDA r :
            /\ SkipLine(scanner).position = FollowingLine
            /\ FollowingLine = Len(input) => r.type = "EOF"
            /\ (FollowingLine < Len(input) /\ ~scanner.SkipComments) =>
                   /\ r.token # <<>>
                   /\ r.token = SubSeq(input, FollowingLine + 1, r.scanner.position))

\* The token is the EOL of a line that another line follows, and SkipLine
\* leaves the scanner where it is.
C29_Witness ==
    /\ AfterToken
    /\ Len(tokens) > 1
    /\ tokens[Len(tokens)].type = "EOL"
    /\ tokens[Len(tokens) - 1].type = "Word"
    /\ scanner.position < Len(input)
    /\ ScannerNext(SkipLine(scanner)).type = "Int"

-----------------------------------------------------------------------------
(* The tokens of an input however it is delivered, under RefillSpec.       *)

\* The loop of Next on bytes that are all there: one pass reads a byte or
\* ends a token.
WholeStep(st) ==
    IF st.pos = Len(st.bytes)
    THEN [st EXCEPT !.done = TRUE,
                    !.out = IF st.state = "start" THEN st.out
                            ELSE Append(st.out, [type |-> tokenTypeMap[st.state],
                                                 token |-> st.buffer])]
    ELSE With(ScanTransition(st.bytes[st.pos + 1], st.state), LAMBDA next :
         IF next = "start"
         THEN [st EXCEPT !.state = "start", !.buffer = <<>>,
                         !.out = IF st.skip /\ tokenTypeMap[st.state] = "Comment" THEN st.out
                                 ELSE Append(st.out, [type |-> tokenTypeMap[st.state],
                                                      token |-> st.buffer])]
         ELSE [st EXCEPT !.pos = st.pos + 1, !.state = next,
                         !.buffer = Append(st.buffer, st.bytes[st.pos + 1])])

\* The tokens of the bytes when the whole input is available at once.
WholeTokens(bytes, skip) ==
    Run(WholeStep,
        [bytes |-> bytes, skip |-> skip, pos |-> 0, state |-> "start", buffer |-> <<>>,
         out |-> <<>>, done |-> FALSE],
        2 * Len(bytes) + 2).out

\* The tokens the calls of Next have returned before EOF.
TokensRead ==
    [i \in 1..Len(SelectSeq(tokens, LAMBDA k : k.type # "EOF")) |->
        [type |-> SelectSeq(tokens, LAMBDA k : k.type # "EOF")[i].type,
         token |-> SelectSeq(tokens, LAMBDA k : k.type # "EOF")[i].token]]

\* C30: the tokens Next returns are the tokens of the input read at once,
\* however many bytes the reader delivers by a Read and however long the
\* input is: the tokens returned so far are the first of them, and all of
\* them once Next has returned EOF.
C30_TransparentRefill ==
    OnlyNext =>
        /\ IsPrefix(TokensRead, WholeTokens(input, scanner.SkipComments))
        /\ afterEOF > 0 => TokensRead = WholeTokens(input, scanner.SkipComments)

-----------------------------------------------------------------------------
(* The line the Scanner reports, under ScanSpec.                           *)

\* The 0-based number of the line that holds the byte number p.
LineOfByte(p) == Cardinality({i \in 1..(p - 1) : input[i] = "\n"})

\* The text of the line number k of the input, without its newline.
LineText(k) == Pieces(input, "\n")[k + 1]

\* C31: once a byte is read, Line() is the 0-based number of the line that
\* holds the byte read last; and SkipLine called after a token, be the token
\* in the middle of its line or the EOL of its line, leaves Line() at the line
\* of the token and LineString() at the whole text of that line, without the
\* newline.
C31_LineTracking ==
    /\ scanner.position > 0 => Line(scanner) = LineOfByte(scanner.position)
    /\ AfterToken =>
           /\ Line(SkipLine(scanner)) = Line(scanner)
           /\ LineString(SkipLine(scanner)) = LineText(Line(scanner))

\* The token is the EOL of the second line, which has text: SkipLine leaves
\* the scanner where it is, at the line of the token.
C31_Witness ==
    /\ AfterToken
    /\ tokens[Len(tokens)].type = "EOL"
    /\ scanner.switchLine
    /\ Line(SkipLine(scanner)) = 1
    /\ LineString(SkipLine(scanner)) = <<"a">>
    /\ LineText(1) = <<"a">>

-----------------------------------------------------------------------------
(* The tokens one run of an elementParser reads, under Spec.               *)

\* The line whose record the last call returned: the line of the byte the
\* scanner read last.
LineRead == InputLines[LineOfByte(scanner.position) + 1]

\* The scanner has read the input up to the end of a line and no further:
\* the byte read last is a newline, or the last byte of the input.
AtEndOfLine == scanner.position = Len(input) \/ input[scanner.position] = "\n"

\* C32: a call of Next that returns an element has read the tokens of the
\* line of the element, each once and in order, up to the EOL or EOF that
\* ends the line, and no byte of the line that follows: the scanner stands
\* after the newline of the line, or at the end of the input, and the record
\* of a well-formed line holds the numbers of that line in their order.
C32_OneTokenLookahead ==
    [][results'[Len(results')].type # EndOfFile =>
           /\ scanner.position < scanner'.position
           /\ AtEndOfLine'
           /\ WithoutNote(LineRead') \in WellFormedVertex \cup WellFormedFace =>
                  results'[Len(results')] = RecordOf(WithoutNote(LineRead'))]_vars

\* A record of the first of two lines was returned, and the scanner stands
\* before the first byte of the second.
C32_Witness ==
    /\ Len(InputLines) = MaxLines
    /\ Len(results) = 1
    /\ results[1] = RecordOf(InputLines[1])
    /\ InputLines[1] \in WellFormedFace
    /\ scanner.position = Len(InputLines[1]) + 1
    /\ InputLines[MaxLines] \in WellFormedVertex

-----------------------------------------------------------------------------
(* The records of the lines of one input, under Spec.                      *)

\* The record the last call returned, if it returned one.
LastRecord == results[Len(results)]

\* C33: a record Next returns holds what its own line says, whatever the
\* lines before it held and whether they were read to their end or not: the
\* weight of a vertex whose line has none is 0, a face has one element for
\* each repetition of its line and no more, and the texture and the normal
\* its line does not write are 0. And the value a result points to stays as
\* it was returned, whatever the calls made after it read.
C33_RecordIsolation ==
    /\ \A k \in 1..Len(results) :
           results[k].type # EndOfFile =>
               fsm.heap[results[k].type][fsm.refs[k]] = results[k].value
    /\ (results # <<>> /\ LastRecord.type # EndOfFile) =>
           With(WithoutNote(LineRead), LAMBDA line :
               /\ line = VertexXYZ => LastRecord.value.W = ZeroFloat
               /\ line \in WellFormedFace =>
                      /\ Len(LastRecord.value.Vertices) = Len(Pieces(line, " ")) - 1
                      /\ \A i \in 1..Len(LastRecord.value.Vertices) :
                             /\ line \in {FacePlain, FaceNormals} =>
                                    LastRecord.value.Vertices[i].Texture = 0
                             /\ line \in {FacePlain, FaceTextured} =>
                                    LastRecord.value.Vertices[i].Normal = 0)

\* A vertex without a weight is returned after a vertex with one, whose
\* record is still as it was returned.
C33_Witness ==
    /\ InputLines = <<VertexXYZW, VertexXYZ>>
    /\ Len(results) = MaxLines
    /\ LastRecord.type = "vertex"
    /\ LastRecord.value.W = ZeroFloat
    /\ fsm.heap["vertex"][fsm.refs[1]].W = <<7, 0>>
    /\ fsm.refs[1] # fsm.refs[MaxLines]

-----------------------------------------------------------------------------
(* The fields of text, under SchemaSpec.                                   *)

\* The structure begins with a string or with a DirectionType.
LeadingText == input # <<>> /\ input[1].kind \in {"string", "uint8"}

\* C34: a structure that begins with a string or with a DirectionType
\* compiles, and the state of that field goes on by a Word and leads to err
\* by an Int and by a Float.
C34_TextFields ==
    (fsm.compiled /\ input \in TextSchemas /\ LeadingText) =>
        /\ fsm.panic = ""
        /\ fsm.rows[first + 1]["Word"].state \notin {start, err}
        /\ fsm.rows[first + 1]["Int"].state = err
        /\ fsm.rows[first + 1]["Float"].state = err

-----------------------------------------------------------------------------
(* model: the Model of vertices and faces. A vertex is a record of its     *)
(* coordinates, a face the three vertices it was made of.                  *)

\* NewModel, with the normals the Importer appends.
NewModel == [vertices |-> <<>>, normals |-> <<>>, faces |-> <<>>]

\* The nil pointer to a Vertex.
NilVertex == <<>>

\* Model.vertexByIndex: the pointer to the vertex and the error, "" for nil.
vertexByIndex(model, index) ==
    LET verticesCount == Len(model.vertices) IN
    IF index > 0
    THEN IF index <= verticesCount
         THEN [vertex |-> model.vertices[index], err |-> ""]
         ELSE [vertex |-> NilVertex, err |-> "unresolved vertex index: " \o ToString(index)]
    ELSE IF index < 0
    THEN IF 0 - index <= verticesCount
         THEN [vertex |-> model.vertices[verticesCount + index + 1], err |-> ""]
         ELSE [vertex |-> NilVertex, err |-> "unresolved vertex index: " \o ToString(index)]
    ELSE [vertex |-> NilVertex, err |-> "vertex index cannot be zero"]

\* Model.AppendVertex.
AppendVertex(model, x, y, z) ==
    [model EXCEPT !.vertices = Append(@, [X |-> x, Y |-> y, Z |-> z])]

\* GetVertex that looks at the error before it follows the pointer.
GetVertex_Checked(model, index) ==
    [vertex |-> vertexByIndex(model, index).vertex, err |-> vertexByIndex(model, index).err,
     panic |-> ""]

\* Model.GetVertex: the vertex the pointer leads to and the error; the nil
\* pointer is followed too, which is a panic of the runtime.
GetVertex(model, index) ==
    With(vertexByIndex(model, index), LAMBDA r :
        [vertex |-> r.vertex, err |-> r.err,
         panic |-> IF r.vertex = NilVertex
                   THEN "invalid memory address or nil pointer dereference" ELSE ""])

\* AppendFace that appends the face of the vertices it has found.
AppendFace_Partial(model, v1, v2, v3) ==
    With(<<vertexByIndex(model, v1), vertexByIndex(model, v2), vertexByIndex(model, v3)>>,
         LAMBDA found :
        [model |-> [model EXCEPT !.faces = Append(@, [i \in 1..3 |-> found[i].vertex])],
         err |-> FirstPanic([i \in 1..3 |-> found[i].err])])

\* Model.AppendFace: the model it leaves and the error it returns.
AppendFace(model, v1, v2, v3) ==
    With(<<vertexByIndex(model, v1), vertexByIndex(model, v2), vertexByIndex(model, v3)>>,
         LAMBDA found :
        IF found[1].err # "" THEN [model |-> model, err |-> found[1].err]
        ELSE IF found[2].err # "" THEN [model |-> model, err |-> found[2].err]
        ELSE IF found[3].err # "" THEN [model |-> model, err |-> found[3].err]
        ELSE [model |-> [model EXCEPT !.faces = Append(@, [i \in 1..3 |-> found[i].vertex])],
              err |-> ""])

-----------------------------------------------------------------------------
(* importer: the Importer reads the elements a Parser returns into a       *)
(* Model. The Parser is the elements its calls of Next return, in order,   *)
(* and EndOfFile after them.                                               *)

\* Most vertices, normals and faces of one input.
MaxVertices == 3
MaxNormals == 1
MaxFaces == 3

\* The element the Parser returns for the line number i of a vertex, of a
\* normal, and for a face of three indices.
VertexElement(i) ==
    [type |-> "vertex",
     value |-> [X |-> <<i, 0>>, Y |-> ZeroFloat, Z |-> ZeroFloat, W |-> ZeroFloat]]
NormalElement(i) ==
    [type |-> "vertex normal", value |-> [X |-> <<i, 0>>, Y |-> ZeroFloat, Z |-> ZeroFloat]]
FaceElement(indices) ==
    [type |-> "face",
     value |-> [Vertices |-> [k \in 1..3 |-> [Index |-> indices[k], Texture |-> 0, Normal |-> 0]]]]

\* The faces of the inputs: the first three vertices, the last three, and a
\* face with an index no vertex has.
FaceIndices == {<<1, 2, 3>>, <<0 - 1, 0 - 2, 0 - 3>>, <<1, 2, MaxVertices + 1>>}

\* The inputs: vertices, then normals, then faces.
ImportInputs ==
    {[i \in 1..nv |-> VertexElement(i)] \o [i \in 1..nn |-> NormalElement(i)]
        \o [i \in 1..Len(fs) |-> FaceElement(fs[i])] :
        nv \in 0..MaxVertices, nn \in 0..MaxNormals, fs \in SeqsUpTo(FaceIndices, MaxFaces)}

\* Parser.Next when read elements were returned.
Yielded(read) ==
    IF read < Len(input) THEN input[read + 1] ELSE [type |-> EndOfFile, value |-> <<>>]

\* Import up to the call of importVertices: a new Model.
ImportInit ==
    /\ input \in ImportInputs
    /\ fsm = [phase |-> "importVertices", read |-> 0, model |-> NewModel, log |-> <<>>]
    /\ scanner = NewScanner(<<>>, TRUE)
    /\ tokens = <<>>
    /\ afterEOF = 0
    /\ parser = IdleParser
    /\ Output = <<>>
    /\ element = IdleElements
    /\ results = <<>>

\* Importer.importVertex and Importer.importNormal.
importVertex(st, v) ==
    [st EXCEPT !.model = AppendVertex(st.model, v.X, v.Y, v.Z),
               !.log = IF v.W # ZeroFloat
                       THEN Append(@, "[WARNING] vertex weights are not supported") ELSE @]
importNormal(st, v) == [st EXCEPT !.model.normals = Append(@, v)]

\* Importer.importFace.
importFace(st, f) ==
    With(AppendFace(st.model, f.Vertices[1].Index, f.Vertices[2].Index, f.Vertices[3].Index),
         LAMBDA r :
        [st EXCEPT !.model = r.model,
                   !.log = (@ \o (IF Len(f.Vertices) > 3
                                  THEN <<"[WARNING] only triangular faces are supported, the first three vertices will be used as a triangle">>
                                  ELSE <<>>)
                              \o (IF f.Vertices[1].Texture # 0
                                  THEN <<"[WARNING] vertex textures are not supported">>
                                  ELSE <<>>)
                              \o (IF r.err # "" THEN <<"[ERROR] " \o r.err>> ELSE <<>>))])

\* The call of p.Next is made: the Parser has returned one more element, if
\* it had one.
Called(st) == [st EXCEPT !.read = IF @ < Len(input) THEN @ + 1 ELSE @]

\* One pass of the loop of Importer.importVertices.
importVerticesStep(st) ==
    With(Yielded(st.read), LAMBDA r :
    CASE r.type = "vertex" -> importVertex(Called(st), r.value)
      [] r.type = "vertex normal" -> importNormal(Called(st), r.value)
      [] r.type \in {"face", EndOfFile} -> [Called(st) EXCEPT !.phase = "importNormals"]
      [] OTHER -> [Called(st) EXCEPT !.phase = "importNormals",
                                     !.log = Append(@, "[ERROR] An impossible element was read: " \o r.type)])

\* One pass of the loop of Importer.importNormals.
importNormalsStep(st) ==
    With(Yielded(st.read), LAMBDA r :
    CASE r.type = "vertex normal" -> importNormal(Called(st), r.value)
      [] r.type \in {"face", EndOfFile} -> [Called(st) EXCEPT !.phase = "importFaces"]
      [] OTHER -> [Called(st) EXCEPT !.phase = "importFaces",
                                     !.log = Append(@, "[ERROR] An impossible element was read: " \o r.type)])

\* One pass of the loop of Importer.importFaces.
importFacesStep(st) ==
    With(Yielded(st.read), LAMBDA r :
    CASE r.type = "face" -> importFace(Called(st), r.value)
      [] r.type = "vertex" ->
            [Called(st) EXCEPT !.log = Append(@, "[ERROR] incorrect order of elements (vertices must be defined before faces), the vertex will be skipped")]
      [] r.type = "vertex normal" ->
            [Called(st) EXCEPT !.log = Append(@, "[ERROR] incorrect order of elements (normal must be defined before faces), the vertex will be skipped")]
      [] r.type = EndOfFile -> [Called(st) EXCEPT !.phase = "return"]
      [] OTHER -> [Called(st) EXCEPT !.phase = "return",
                                     !.log = Append(@, "[ERROR] An impossible element was read: " \o r.type)])

\* Importer.Import, pass by pass: importVertices, importNormals, importFaces.
ImportVertices ==
    /\ fsm.phase = "importVertices"
    /\ fsm' = importVerticesStep(fsm)
    /\ UNCHANGED <<input, scanner, tokens, afterEOF, parser, Output, element, results>>

ImportNormals ==
    /\ fsm.phase = "importNormals"
    /\ fsm' = importNormalsStep(fsm)
    /\ UNCHANGED <<input, scanner, tokens, afterEOF, parser, Output, element, results>>

ImportFaces ==
    /\ fsm.phase = "importFaces"
    /\ fsm' = importFacesStep(fsm)
    /\ UNCHANGED <<input, scanner, tokens, afterEOF, parser, Output, element, results>>

ImportNext == ImportVertices \/ ImportNormals \/ ImportFaces

ImportSpec == ImportInit /\ [][ImportNext]_vars

-----------------------------------------------------------------------------
(* The Model the Importer returns, under ImportSpec.                       *)

\* The elements of the input of a type, and the faces whose indices are
\* those of vertices of the input.
ElementsOf(type) == SelectSeq(input, LAMBDA r : r.type = type)
ValidFaces ==
    SelectSeq(ElementsOf("face"), LAMBDA r :
        \A k \in 1..3 :
            /\ r.value.Vertices[k].Index # 0
            /\ r.value.Vertices[k].Index <= Len(ElementsOf("vertex"))
            /\ 0 - r.value.Vertices[k].Index <= Len(ElementsOf("vertex")))

\* C35: when Import returns, the Model has a vertex for each vertex of the
\* input, a normal for each normal, and a face for each face of the input
\* whose indices are those of vertices: no element the Parser returned is
\* left out.
C35_ImportsEveryElement ==
    fsm.phase = "return" =>
        /\ Len(fsm.model.vertices) = Len(ElementsOf("vertex"))
        /\ Len(fsm.model.normals) = Len(ElementsOf("vertex normal"))
        /\ Len(fsm.model.faces) = Len(ValidFaces)

-----------------------------------------------------------------------------
(* The specification of the Model: vertices are appended, and vertices and *)
(* faces are asked for by any index.                                       *)

\* The indices of the calls: zero, the indices of MaxVertices vertices from
\* the first and from the last, and one beyond on each side.
Indices == (0 - (MaxVertices + 1))..(MaxVertices + 1)

\* No call was made yet.
NoCall == [op |-> "", indices |-> <<>>, vertex |-> NilVertex, err |-> "", panic |-> "",
           before |-> NewModel]

ModelInit ==
    /\ fsm = [model |-> NewModel, last |-> NoCall]
    /\ input = <<>>
    /\ scanner = NewScanner(<<>>, TRUE)
    /\ tokens = <<>>
    /\ afterEOF = 0
    /\ parser = IdleParser
    /\ Output = <<>>
    /\ element = IdleElements
    /\ results = <<>>

\* A call of AppendVertex: the vertex number n has the coordinates (n, 0, 0).
ModelAppendVertex ==
    /\ Len(fsm.model.vertices) < MaxVertices
    /\ fsm' = [model |-> AppendVertex(fsm.model, <<Len(fsm.model.vertices) + 1, 0>>,
                                      ZeroFloat, ZeroFloat),
               last |-> [NoCall EXCEPT !.op = "AppendVertex", !.before = fsm.model]]
    /\ UNCHANGED <<input, scanner, tokens, afterEOF, parser, Output, element, results>>

\* A call of GetVertex.
ModelGetVertex ==
    /\ \E index \in Indices :
          With(GetVertex(fsm.model, index), LAMBDA r :
             fsm' = [model |-> fsm.model,
                     last |-> [op |-> "GetVertex", indices |-> <<index>>, vertex |-> r.vertex,
                               err |-> r.err, panic |-> r.panic, before |-> fsm.model]])
    /\ UNCHANGED <<input, scanner, tokens, afterEOF, parser, Output, element, results>>

\* The indices of a call of AppendFace: the first vertex, the last vertex, and
\* any index in any place.
Triples ==
    {[k \in 1..3 |-> IF k = place THEN index ELSE IF k < place THEN 1 ELSE 0 - 1] :
        place \in 1..3, index \in Indices}

\* A call of AppendFace, on a Model without a face or with an index that is
\* not one of a vertex.
ModelAppendFace ==
    /\ \E v1 \in Indices, v2 \in Indices, v3 \in Indices :
          /\ <<v1, v2, v3>> \in Triples
          /\ \/ fsm.model.faces = <<>>
             \/ \E v \in {v1, v2, v3} : vertexByIndex(fsm.model, v).err # ""
          /\ With(AppendFace(fsm.model, v1, v2, v3), LAMBDA r :
                fsm' = [model |-> r.model,
                        last |-> [op |-> "AppendFace", indices |-> <<v1, v2, v3>>,
                                  vertex |-> NilVertex, err |-> r.err, panic |-> "",
                                  before |-> fsm.model]])
    /\ UNCHANGED <<input, scanner, tokens, afterEOF, parser, Output, element, results>>

ModelNext == ModelAppendVertex \/ ModelGetVertex \/ ModelAppendFace

ModelSpec == ModelInit /\ [][ModelNext]_vars

-----------------------------------------------------------------------------
(* The indices of the Model, under ModelSpec.                              *)

\* The index is zero or beyond the vertices the Model had at the call.
BadIndex(index) ==
    \/ index = 0
    \/ index > Len(fsm.last.before.vertices)
    \/ 0 - index > Len(fsm.last.before.vertices)

\* The vertex the index stands for: the vertex number index from the first,
\* or the vertex number -index from the last.
VertexAt(index) ==
    IF index > 0 THEN fsm.last.before.vertices[index]
    ELSE fsm.last.before.vertices[Len(fsm.last.before.vertices) + 1 + index]

\* C36: GetVertex and AppendFace called with an index that is zero or beyond
\* the vertices of the Model return an error, without a panic, and leave the
\* Model as it was; called with indices of vertices they return no error,
\* GetVertex returns the vertex the index stands for and AppendFace appends
\* the face of the three vertices.
C36_IndexErrors ==
    /\ (fsm.last.op \in {"GetVertex", "AppendFace"}
            /\ \E k \in 1..Len(fsm.last.indices) : BadIndex(fsm.last.indices[k])) =>
           /\ fsm.last.panic = ""
           /\ fsm.last.err # ""
           /\ fsm.model = fsm.last.before
    /\ (fsm.last.op = "GetVertex" /\ ~BadIndex(fsm.last.indices[1])) =>
           /\ fsm.last.err = "" /\ fsm.last.panic = ""
           /\ fsm.last.vertex = VertexAt(fsm.last.indices[1])
           /\ fsm.model = fsm.last.before
    /\ (fsm.last.op = "AppendFace" /\ \A k \in 1..3 : ~BadIndex(fsm.last.indices[k])) =>
           /\ fsm.last.err = ""
           /\ fsm.model.vertices = fsm.last.before.vertices
           /\ fsm.model.faces =
                  Append(fsm.last.before.faces, [k \in 1..3 |-> VertexAt(fsm.last.indices[k])])

-----------------------------------------------------------------------------
(* The specification of the two Parsers with IgnoreWarnings and            *)
(* IgnoreErrors set to any values before the first call of Next.           *)

NotAWordThenVertex == <<"1", " ">> \o VertexXYZ

\* Lines of every outcome: an element, an error, a warning, nothing.
FlagLines ==
    {VertexXYZ, VertexXYZW, VertexWrongKind, VertexEndsEarly, FacePlain, FaceTwo,
     Unsupported, NotAWord, NotAWordThenVertex, UnknownKeyword, EmptyLine}
FlagInputs ==
    LET files == {Terminated(ls) : ls \in SeqsUpTo(FlagLines, MaxLines)}
    IN files \cup {SubSeq(f, 1, Len(f) - 1) : f \in files \ {<<>>}}

\* The elements of the Parser of obj_parser.go, which reads vertices only.
ObjElements == [vertex |-> [X |-> ZeroFloat, Y |-> ZeroFloat, Z |-> ZeroFloat]]

FlagInit ==
    /\ input \in FlagInputs
    /\ scanner = NewParser(input).scanner
    /\ parser \in [IgnoreWarnings : BOOLEAN, IgnoreErrors : BOOLEAN]
    /\ tokens = <<>>
    /\ afterEOF = 0
    /\ Output = <<>>
    /\ element \in {IdleElements, ObjElements}
    /\ results = <<>>
    /\ fsm = ParserHeap

\* A call of Next of the Parser of the registry of compiled machines.
FlagParserNextCall ==
    /\ DOMAIN element = DOMAIN IdleElements
    /\ ParserNextCall

\* A call of Next of the Parser of obj_parser.go.
FlagObjNextCall ==
    /\ DOMAIN element = DOMAIN ObjElements
    /\ ObjNextCall

FlagNext == FlagParserNextCall \/ FlagObjNextCall

FlagSpec == FlagInit /\ [][FlagNext]_vars

-----------------------------------------------------------------------------
(* C37: the flags and the elements returned.                               *)

\* What the first n calls of Next return when the flags are cfg.
RECURSIVE NextRecords(_, _, _, _)
NextRecords(sc, elems, cfg, n) ==
    IF n = 0 THEN <<>>
    ELSE With(IF DOMAIN elems = DOMAIN ObjElements
              THEN objParserNext(sc, <<>>, elems, cfg)
              ELSE ParserNext(sc, <<>>, elems, cfg), LAMBDA r :
         <<[type |-> r.type, value |-> r.value]>>
             \o NextRecords(r.scanner, r.element, cfg, n - 1))

\* The elements the calls made so far have returned.
Returns == [i \in 1..Len(results) |-> [type |-> results[i].type, value |-> results[i].value]]

-----------------------------------------------------------------------------
(* The specification of the Parser on one well-formed line with spaces and *)
(* tabs between its last field and its end.                                *)

\* The longest run of spaces and tabs after the last field.
MaxTrail == 2

\* The well-formed line, the run after it, and whether a newline ends it.
TrailInit ==
    /\ \E line \in WellFormedVertex \cup WellFormedFace :
       \E trail \in SeqsUpTo({" ", "\t"}, MaxTrail) :
       \E end \in {<<"\n">>, <<>>} : input = line \o trail \o end
    /\ scanner = NewParser(input).scanner
    /\ parser = IdleParser
    /\ tokens = <<>>
    /\ afterEOF = 0
    /\ Output = <<>>
    /\ element = IdleElements
    /\ results = <<>>
    /\ fsm = ParserHeap

TrailSpec == TrailInit /\ [][Next]_vars

-----------------------------------------------------------------------------
(* C38: spaces and tabs before the end of a well-formed line.              *)

\* The well-formed line the input begins with.
TrailLine ==
    CHOOSE line \in WellFormedVertex \cup WellFormedFace :
        \E trail \in SeqsUpTo({" ", "\t"}, MaxTrail) : InputLines[1] = line \o trail

\* C38: a well-formed line of a vertex or of a face followed by spaces and
\* tabs before its EOL or EOF gives the record of the line without them: the
\* first call of Next returns it and no message is written.
C38_TrailingWhitespace ==
    Len(results) > 0 => results[1] = RecordOf(TrailLine) /\ Output = <<>>

-----------------------------------------------------------------------------
(* C39: the last line ended by the end of the input, under Spec.           *)

\* The input has a last line that no newline ends.
Unterminated == input # <<>> /\ input[Len(input)] # "\n"

\* The Parser after n more calls of Next, with what the calls returned.
RECURSIVE NextCalls(_, _)
NextCalls(st, n) ==
    IF n = 0 THEN st
    ELSE With(ParserNext(st.scanner, st.Output, st.element, IdleParser), LAMBDA r :
         NextCalls([scanner |-> r.scanner, Output |-> r.Output, element |-> r.element,
                    returns |-> Append(st.returns, [type |-> r.type, value |-> r.value])],
                   n - 1))

\* The calls made so far, made on the input with a newline after it.
WithNewline ==
    NextCalls([scanner |-> NewParser(input \o <<"\n">>).scanner, Output |-> <<>>,
               element |-> IdleElements, returns |-> <<>>],
              Len(results))

\* C39: on an input whose last line is ended by the end of the input, the
\* calls of Next return what they return on the same input with a newline
\* after it, element by element, and write the same messages (type, text,
\* number of the line and line); once the last line is read, the calls
\* return EndOfFile.
C39_EndOfInputEndsLine ==
    Unterminated =>
        /\ Returns = WithNewline.returns
        /\ Says = [i \in 1..Len(WithNewline.Output) |->
                      [type |-> WithNewline.Output[i].type,
                       message |-> WithNewline.Output[i].message,
                       line |-> WithNewline.Output[i].line,
                       lineString |-> WithNewline.Output[i].lineString]]
        /\ scanner.position = Len(input) =>
               ParserNext(scanner, Output, element, parser).type = EndOfFile

-----------------------------------------------------------------------------
(* The specification of buildParser on structures whose last field is a    *)
(* slice of structures of few or of many required elements.                *)

\* The largest value of the min tag strconv.ParseInt(min, 10, 8) reads, and
\* the number of values of stateType.
MaxMin == 127
StateCount == 256

\* The most required elements of the small slices.
MaxSmallMin == 4

WideSchemas ==
    {before \o <<SliceOfStruct("C", "c", delimiter, min, fs)>> :
        before \in {<<>>, <<Field("int", "A", "a", FALSE)>>},
        delimiter \in {"slash", "space"},
        min \in 2..MaxSmallMin,
        fs \in SeqsUpTo(BaseFields, 2) \ {<<>>}}
    \cup {<<SliceOfStruct("C", "c", delimiter, min, <<Field("int", "A", "a", FALSE)>>)>> :
            delimiter \in {"slash", "space"},
            min \in {MaxMin - 1, MaxMin, MaxMin + 1}}

WideInit ==
    /\ input \in WideSchemas
    /\ fsm = [compiled |-> FALSE, valid |-> FALSE, panic |-> "", rows |-> <<>>]
    /\ scanner = NewScanner(<<>>, TRUE)
    /\ tokens = <<>>
    /\ afterEOF = 0
    /\ parser = IdleParser
    /\ Output = <<>>
    /\ element = IdleElements
    /\ results = <<>>

\* buildParser on the structure: valid says that newBuilder has returned,
\* rows are the rows build has made, and panic is the panic of newBuilder, of
\* build or of buildMachine.
WideCompile ==
    /\ ~fsm.compiled
    /\ With(newBuilder("element", input), LAMBDA b :
          IF b.panic # ""
          THEN fsm' = [compiled |-> TRUE, valid |-> FALSE, panic |-> b.panic, rows |-> <<>>]
          ELSE With(build(b), LAMBDA built :
                  fsm' = [compiled |-> TRUE, valid |-> TRUE,
                          panic |-> buildMachine(built).panic, rows |-> built.builders]))
    /\ UNCHANGED <<input, scanner, tokens, afterEOF, parser, Output, element, results>>

WideNext == WideCompile

WideSpec == WideInit /\ [][WideNext]_vars

-----------------------------------------------------------------------------
(* C40: the numbers of the states of a compiled table.                     *)

\* The number nextState gave the row i of the rows (the first is row 1).
StateOf(i) == (i - 1) % StateCount

\* C40: for every structure newBuilder accepts, a slice of MaxMin required
\* elements included, the rows build makes have distinct state numbers, that
\* is, there are no more rows than values of stateType; and the state of
\* every cell of a table buildMachine has made is the number of a row of the
\* table.
C40_NoWrapAround ==
    (fsm.compiled /\ fsm.valid) =>
        /\ \A i, j \in 1..Len(fsm.rows) : StateOf(i) = StateOf(j) => i = j
        /\ fsm.panic = "" =>
               \A i \in 1..Len(fsm.rows) : \A t \in TokenTypes :
                   fsm.rows[i][t].state < Len(fsm.rows)

====
